---- MODULE Spec2Model ----
(***************************************************************************)
(* A model of zuri_nbt: the Named Binary Tag codec in its three wire       *)
(* encodings (BigEndian, LittleEndian, NetworkLittleEndian).               *)
(*                                                                         *)
(* Bytes are integers 0..255 and a byte source or sink is a sequence of    *)
(* bytes.  Fixed-width integers and floats are bit vectors (sequences of   *)
(* 0/1, least significant bit first) of their exact width, so that the     *)
(* shifts, complements and negations of the varint layer are computed      *)
(* modulo 2^32 and 2^64 as the code computes them.  A Rust string is the   *)
(* sequence of its Unicode scalar values.                                  *)
(***************************************************************************)
EXTENDS Integers, Sequences, FiniteSets, TLC

VARIABLES
    scen,    \* which use of the library this behaviour exercises
    pc,      \* position of the caller in that scenario
    enc,     \* the encoding (the Reader/Writer implementation) in use
    tag,     \* the NBTTag handed to NBTTag::write, or the one the input frame encodes
    root_name, \* the root name of the frame handed to NBTTag::read
    input,   \* the byte frame handed to NBTTag::read in a decode-first scenario
    prim,    \* the integer handed to write_i32 / write_i64 in the varint scenario
    buf,     \* the sink: every byte written so far
    wres,    \* the Result of the last write
    rres     \* the Result of the last read, with the unread rest of the source

vars == <<scen, pc, enc, tag, root_name, input, prim, buf, wres, rres>>

BigEndian == "BigEndian"
LittleEndian == "LittleEndian"
NetworkLittleEndian == "NetworkLittleEndian"
Encodings == {BigEndian, LittleEndian, NetworkLittleEndian}

(***************************************************************************)
(* Bit vectors.                                                            *)
(***************************************************************************)
Zeros(w) == [i \in 1..w |-> 0]

\* the w-bit vector of a natural n < 2^31
NatBits(n, w) == [i \in 1..w |-> IF i > 31 THEN 0 ELSE (n \div (2 ^ (i - 1))) % 2]

BitNot(b) == [i \in 1..Len(b) |-> 1 - b[i]]

\* the w-bit two's complement of an integer x, -2^31 <= x < 2^31
SignedBits(x, w) == IF x >= 0 THEN NatBits(x, w) ELSE BitNot(NatBits(-(x + 1), w))

RECURSIVE BitsNatFrom(_, _)
BitsNatFrom(b, i) ==
    IF i > Len(b) THEN 0 ELSE b[i] + 2 * BitsNatFrom(b, i + 1)

\* the natural a bit vector stands for (used below 2^31 only)
BitsNat(b) == BitsNatFrom(b, 1)

\* the signed value of a bit vector of at most 32 bits
BitsSigned(b) ==
    IF b[Len(b)] = 0 THEN BitsNat(b) ELSE -BitsNat(BitNot(b)) - 1

IsNegative(b) == b[Len(b)] = 1

\* b << 1 in the width of b
Shl1(b) == [i \in 1..Len(b) |-> IF i = 1 THEN 0 ELSE b[i - 1]]

\* b >> n (logical) in the width of b
Shr(b, n) == [i \in 1..Len(b) |-> IF i + n <= Len(b) THEN b[i + n] ELSE 0]

RECURSIVE IncFrom(_, _)
IncFrom(b, i) ==
    IF i > Len(b) THEN b
    ELSE IF b[i] = 0 THEN [b EXCEPT ![i] = 1]
    ELSE IncFrom([b EXCEPT ![i] = 0], i + 1)

\* two's complement negation (wrapping): -b
Neg(b) == IncFrom(BitNot(b), 1)

\* the byte made of bits lo..lo+7 of b
ByteAt(b, lo) == BitsNat(SubSeq(b, lo, lo + 7))

\* the 8-bit vector of a byte
ByteBits(x) == NatBits(x, 8)

RECURSIVE Concat(_)
RECURSIVE ConcatRange(_, _, _)
ConcatRange(ss, lo, hi) ==
    IF lo > hi THEN <<>>
    ELSE IF lo = hi THEN ss[lo]
    ELSE ConcatRange(ss, lo, (lo + hi) \div 2) \o ConcatRange(ss, (lo + hi) \div 2 + 1, hi)

Concat(ss) == ConcatRange(ss, 1, Len(ss))

Reverse(s) == [i \in 1..Len(s) |-> s[Len(s) + 1 - i]]

\* the bytes of a bit vector, least significant byte first
LeBytes(b) == [j \in 1..(Len(b) \div 8) |-> ByteAt(b, 8 * (j - 1) + 1)]

\* the bit vector of bytes given least significant byte first
LeBits(bs) == Concat([j \in 1..Len(bs) |-> ByteBits(bs[j])])

(***************************************************************************)
(* Results.  A read result carries the value and the unread rest of the    *)
(* source; an error carries the inner error and its Path (err.rs).         *)
(***************************************************************************)
Ok(v, rest) == [ok |-> TRUE, val |-> v, rest |-> rest]

\* NBTError::new: the inner error with the default (empty) path
NBTError_new(inner) == [ok |-> FALSE, err |-> inner, path |-> <<>>]

\* NBTError::new_with_path
NBTError_new_with_path(inner, path) == [ok |-> FALSE, err |-> inner, path |-> path]

Element(i) == <<"Element", i>>
MapKey(name) == <<"MapKey", name>>

Field(name) == <<"Field", name>>
TupleField(i) == <<"TupleField", i>>

\* usize::to_string: the decimal digits, most significant first, as characters
RECURSIVE to_string(_)
to_string(v) ==
    IF v < 10 THEN <<48 + v>> ELSE to_string(v \div 10) \o <<48 + (v % 10)>>

\* impl Display for PathPart: what is written to the formatter
PathPart_fmt(part) ==
    CASE part[1] = "MapKey" -> part[2]
      [] part[1] = "Field" -> part[2]
      [] part[1] = "Element" -> <<91>> \o to_string(part[2]) \o <<93>>
      [] part[1] = "TupleField" -> to_string(part[2])

\* the loop of Path's Display over the parts after the first
RECURSIVE PathFmtLoop(_, _)
PathFmtLoop(path, i) ==
    IF i > Len(path) THEN <<>>
    ELSE (IF path[i][1] = "Element" THEN <<>> ELSE <<46>>)
            \o PathPart_fmt(path[i]) \o PathFmtLoop(path, i + 1)

\* a Display that writes the dot before every part after the first
Path_fmt_dotted(path) ==
    IF path = <<>> THEN <<40, 114, 111, 111, 116, 41>>
    ELSE PathPart_fmt(path[1])
            \o Concat([i \in 1..(Len(path) - 1) |-> <<46>> \o PathPart_fmt(path[i + 1])])

\* impl Display for Path: "(root)" for the empty path, else the first part
\* and the loop
Path_fmt(path) ==
    IF path = <<>> THEN <<40, 114, 111, 111, 116, 41>>
    ELSE PathPart_fmt(path[1]) \o PathFmtLoop(path, 2)

\* Path::from_single
Path_from_single(part) == <<part>>

\* a prepend that pushes the part at the back of the path
prepend_back(res, part) == [res EXCEPT !.path = @ \o <<part>>]

\* NBTError::prepend: push the part on the front of the path
prepend(res, part) == [res EXCEPT !.path = <<part>> \o @]

\* Result::map_err(|err| err.prepend(part)): only an Err is touched
map_err_prepend(res, part) == IF res.ok THEN res ELSE prepend(res, part)

Io == <<"Io", "UnexpectedEof">>
UnknownTagType(id) == <<"UnknownTagType", id>>
UnexpectedTag(a, b) == <<"UnexpectedTag", <<a, b>>>>
SeqLengthViolation(max, got) == <<"SeqLengthViolation", <<max, got>>>>
InvalidString(bytes) == <<"InvalidString", bytes>>
Custom(msg) == <<"Custom", msg>>

\* the variant of an inner error and what it carries
Kind(err) == err[1]
Carried(err) == err[2]

I16_MAX == 32767
I32_MAX == 2147483647

(***************************************************************************)
(* Reader: the fixed-width primitives of the three encodings               *)
(* (byteorder's read_exact on the source: a short source is an Io error).  *)
(***************************************************************************)
\* a fixed-width read that takes the missing bytes of a short source as zero
ReadFixed_padded(e, src, n) ==
    LET full == src \o [i \in 1..(n - Len(src)) |-> 0] IN
    Ok(LeBits(IF e = BigEndian THEN Reverse(SubSeq(full, 1, n)) ELSE SubSeq(full, 1, n)),
       SubSeq(full, n + 1, Len(full)))

\* w/8 bytes in the byte order of e, as a w-bit vector
ReadFixed(e, src, n) ==
    IF Len(src) < n THEN NBTError_new(Io)
    ELSE Ok(LeBits(IF e = BigEndian THEN Reverse(SubSeq(src, 1, n)) ELSE SubSeq(src, 1, n)),
            SubSeq(src, n + 1, Len(src)))

\* Reader::u8, the same in every encoding: one byte, as a number 0..255
u8(e, src) ==
    IF Len(src) < 1 THEN NBTError_new(Io) ELSE Ok(src[1], Tail(src))

\* Reader::i8: one byte, as an 8-bit vector
i8(e, src) == ReadFixed(e, src, 1)

\* Reader::i16: fixed width in every encoding (little endian in network mode)
i16(e, src) == ReadFixed(e, src, 2)

\* v |= ((b & 0x7f) as uN) << i, in the width of v: bits shifted out are lost
OrShifted(v, b, i) ==
    [k \in 1..Len(v) |->
        IF k > i /\ k <= i + 7 /\ ByteBits(b)[k - i] = 1 THEN 1 ELSE v[k]]

\* let x = (v >> 1) as iN; if v & 1 != 0 { -x } else { x }
ZigZagDecode(v) ==
    IF v[1] = 1 THEN Neg(Shr(v, 1)) ELSE Shr(v, 1)

\* the loop of NetworkLittleEndian::i32 / i64 / string: for i in (0..top).step_by(7),
\* one byte per round, stopping at the first byte without the high bit; the
\* result is the accumulated unsigned v, or Custom once i reaches top
RECURSIVE UVarint(_, _, _, _)
UVarint(src, v, i, top) ==
    IF i >= top THEN NBTError_new(Custom("varint overflows integer"))
    ELSE LET b == u8(NetworkLittleEndian, src) IN
         IF ~b.ok THEN b
         ELSE LET v2 == OrShifted(v, b.val, i) IN
              IF b.val < 128 THEN Ok(v2, b.rest)
              ELSE UVarint(b.rest, v2, i + 7, top)

\* NetworkLittleEndian::i32 / i64: the varint, then the zig-zag decoding
VarintSigned(src, w, top) ==
    LET u == UVarint(src, Zeros(w), 0, top) IN
    IF ~u.ok THEN u ELSE Ok(ZigZagDecode(u.val), u.rest)

\* an i32 that gives up after four bytes
i32_short(e, src) ==
    IF e = NetworkLittleEndian THEN VarintSigned(src, 32, 28) ELSE ReadFixed(e, src, 4)

\* Reader::i32
i32(e, src) ==
    IF e = NetworkLittleEndian THEN VarintSigned(src, 32, 35) ELSE ReadFixed(e, src, 4)

\* Reader::i64
i64(e, src) ==
    IF e = NetworkLittleEndian THEN VarintSigned(src, 64, 70) ELSE ReadFixed(e, src, 8)

\* Reader::f32 / f64: the bit pattern, fixed width (little endian in network mode)
f32(e, src) == ReadFixed(e, src, 4)
f64(e, src) == ReadFixed(e, src, 8)

(***************************************************************************)
(* Writer: the primitives, as the bytes each appends to the sink (a        *)
(* Vec<u8>, which never fails).                                            *)
(***************************************************************************)
FixedBytes(e, b) == IF e = BigEndian THEN Reverse(LeBytes(b)) ELSE LeBytes(b)

write_u8(e, x) == <<x>>
write_i8(e, b) == <<ByteAt(b, 1)>>
write_i16(e, b) == FixedBytes(e, b)

\* u >= 0x80
Ge80(u) == \E k \in 8..Len(u) : u[k] = 1

\* while u >= 0x80 { write_u8(u as u8 | 0x80); u >>= 7 } write_u8(u as u8)
RECURSIVE VarintBytes(_)
VarintBytes(u) ==
    IF Ge80(u) THEN <<BitsNat(SubSeq(u, 1, 7)) + 128>> \o VarintBytes(Shr(u, 7))
    ELSE <<ByteAt(u, 1)>>

\* a zig-zag step that leaves a negative value as it is shifted
ZigZagEncode_plain(x) == Shl1(x)

\* let mut u = (x as uN) << 1; if x < 0 { u = !u }
ZigZagEncode(x) == IF IsNegative(x) THEN BitNot(Shl1(x)) ELSE Shl1(x)

\* Writer::write_i32
write_i32(e, x) ==
    IF e = NetworkLittleEndian THEN VarintBytes(ZigZagEncode(x)) ELSE FixedBytes(e, x)

\* Writer::write_i64
write_i64(e, x) ==
    IF e = NetworkLittleEndian THEN VarintBytes(ZigZagEncode(x)) ELSE FixedBytes(e, x)

write_f32(e, x) == FixedBytes(e, x)
write_f64(e, x) == FixedBytes(e, x)

\* Writer::write_end
write_end(e) == write_u8(e, 0)

(***************************************************************************)
(* Modified UTF-8 (the cesu8 crate, Java variant), as the codec calls it.  *)
(* A str is the sequence of its scalar values; the bytes are computed.     *)
(***************************************************************************)
Cont(x) == x >= 128 /\ x <= 191
InR(x, lo, hi) == x >= lo /\ x <= hi

\* the UTF-8 bytes of a scalar value below 0x10000 (1 to 3 bytes)
Utf8Bmp(c) ==
    IF c < 128 THEN <<c>>
    ELSE IF c < 2048 THEN <<192 + (c \div 64), 128 + (c % 64)>>
    ELSE <<224 + (c \div 4096), 128 + ((c \div 64) % 64), 128 + (c % 64)>>

\* one char of cesu8::to_java_cesu8: U+0000 is C0 80, a supplementary char is
\* its surrogate pair, each surrogate in three bytes
JavaCesu8Char(c) ==
    IF c = 0 THEN <<192, 128>>
    ELSE IF c < 65536 THEN Utf8Bmp(c)
    ELSE Utf8Bmp(55296 + ((c - 65536) \div 1024)) \o Utf8Bmp(56320 + ((c - 65536) % 1024))

\* cesu8::to_java_cesu8(x)
to_java_cesu8(x) == Concat([i \in 1..Len(x) |-> JavaCesu8Char(x[i])])

DecOk(cps) == [ok |-> TRUE, val |-> cps]
DecErr == [ok |-> FALSE]

\* std::str::from_utf8: strict UTF-8 (no overlong forms, no surrogates,
\* nothing above U+10FFFF); a NUL byte and four-byte sequences are valid
RECURSIVE from_utf8(_)
from_utf8(b) ==
    IF b = <<>> THEN DecOk(<<>>)
    ELSE
      LET n == Len(b)
          b1 == b[1]
          w == IF b1 < 128 THEN 1
               ELSE IF InR(b1, 194, 223) THEN 2
               ELSE IF InR(b1, 224, 239) THEN 3
               ELSE IF InR(b1, 240, 244) THEN 4
               ELSE 0
          valid ==
            /\ w > 0
            /\ n >= w
            /\ w >= 2 => Cont(b[2])
            /\ w >= 3 => Cont(b[3])
            /\ w = 4 => Cont(b[4])
            /\ b1 = 224 => b[2] >= 160
            /\ b1 = 237 => b[2] <= 159
            /\ b1 = 240 => b[2] >= 144
            /\ b1 = 244 => b[2] <= 143
          c == IF w = 1 THEN b1
               ELSE IF w = 2 THEN (b1 - 192) * 64 + (b[2] - 128)
               ELSE IF w = 3 THEN (b1 - 224) * 4096 + (b[2] - 128) * 64 + (b[3] - 128)
               ELSE (b1 - 240) * 262144 + (b[2] - 128) * 4096 + (b[3] - 128) * 64 + (b[4] - 128)
      IN IF ~valid THEN DecErr
         ELSE LET r == from_utf8(SubSeq(b, w + 1, n)) IN
              IF r.ok THEN DecOk(<<c>> \o r.val) ELSE DecErr

\* cesu8's decode_from_iter, Java variant: the pass taken when the bytes are
\* not plain UTF-8.  A raw NUL is refused, C0 80 is U+0000, a pair of
\* three-byte surrogates is one supplementary char, four-byte forms are refused.
RECURSIVE decode_from_iter(_)
decode_from_iter(b) ==
    IF b = <<>> THEN DecOk(<<>>)
    ELSE
      LET n == Len(b)
          b1 == b[1]
          w == IF b1 = 0 THEN 0
               ELSE IF b1 < 128 THEN 1
               ELSE IF b1 = 192 THEN (IF n >= 2 /\ b[2] = 128 THEN 2 ELSE 0)
               ELSE IF ~(n >= 2 /\ Cont(b[2])) THEN 0
               ELSE IF InR(b1, 194, 223) THEN 2
               ELSE IF ~(InR(b1, 224, 239) /\ n >= 3 /\ Cont(b[3])) THEN 0
               ELSE IF \/ (b1 = 224 /\ b[2] >= 160)
                       \/ InR(b1, 225, 236)
                       \/ (b1 = 237 /\ b[2] <= 159)
                       \/ InR(b1, 238, 239) THEN 3
               ELSE IF /\ b1 = 237 /\ InR(b[2], 160, 175)
                       /\ n >= 6 /\ b[4] = 237
                       /\ InR(b[5], 176, 191) /\ Cont(b[6]) THEN 6
               ELSE 0
          c == IF w = 1 THEN b1
               ELSE IF w = 2 /\ b1 = 192 THEN 0
               ELSE IF w = 2 THEN (b1 - 192) * 64 + (b[2] - 128)
               ELSE IF w = 3 THEN (b1 - 224) * 4096 + (b[2] - 128) * 64 + (b[3] - 128)
               ELSE 65536 + (((b[2] - 160) * 64 + (b[3] - 128)) * 1024)
                          + ((b[5] - 176) * 64 + (b[6] - 128))
      IN IF w = 0 THEN DecErr
         ELSE LET r == decode_from_iter(SubSeq(b, w + 1, n)) IN
              IF r.ok THEN DecOk(<<c>> \o r.val) ELSE DecErr

\* cesu8::from_java_cesu8(bytes): plain UTF-8 is taken as it is, anything
\* else goes through the Java decoder
from_java_cesu8(b) ==
    LET plain == from_utf8(b) IN
    IF plain.ok THEN plain ELSE decode_from_iter(b)

(***************************************************************************)
(* Reader: the provided methods of the trait (reader.rs) and the network   *)
(* string (encoding.rs).                                                   *)
(***************************************************************************)
\* for i in 0..len { push(u8(buf).map_err(|e| e.prepend(Element(i)))?) }
RECURSIVE ReadU8Loop(_, _, _, _, _)
ReadU8Loop(e, src, i, len, acc) ==
    IF i >= len THEN Ok(acc, src)
    ELSE LET b == u8(e, src) IN
         IF ~b.ok THEN map_err_prepend(b, Element(i))
         ELSE ReadU8Loop(e, b.rest, i + 1, len, Append(acc, b.val))

\* len as usize of the u32 the network string reads.  A length of 2^31 or
\* more stands as I32_MAX here: the loop ends at the first missing byte and
\* no source of the model is that long.
U32Len(v) == IF v[32] = 1 THEN I32_MAX ELSE BitsNat(SubSeq(v, 1, 31))

\* the length prefix and the bytes of a string, before they are decoded:
\* Reader::string (reader.rs) reads an i16 and refuses a negative one,
\* NetworkLittleEndian::string (encoding.rs) reads an unsigned varint
StringBytes(e, src) ==
    IF e = NetworkLittleEndian
    THEN LET len == UVarint(src, Zeros(32), 0, 35) IN
         IF ~len.ok THEN len
         ELSE ReadU8Loop(e, len.rest, 0, U32Len(len.val), <<>>)
    ELSE LET len == i16(e, src) IN
         IF ~len.ok THEN len
         ELSE IF IsNegative(len.val)
         THEN NBTError_new(SeqLengthViolation(I16_MAX, BitsSigned(len.val)))
         ELSE ReadU8Loop(e, len.rest, 0, BitsSigned(len.val), <<>>)

\* Reader::string: the bytes, then cesu8::from_java_cesu8; bytes that do not
\* decode are returned in InvalidString
string(e, src) ==
    LET raw == StringBytes(e, src) IN
    IF ~raw.ok THEN raw
    ELSE LET str == from_java_cesu8(raw.val) IN
         IF str.ok THEN Ok(str.val, raw.rest)
         ELSE NBTError_new(InvalidString(raw.val))

\* one element of an array: Reader::i8, i32 or i64
ReadElem(e, w, src) ==
    IF w = 8 THEN i8(e, src) ELSE IF w = 32 THEN i32(e, src) ELSE i64(e, src)

\* for i in 0..len { push(elem(buf).map_err(|e| e.prepend(Element(i)))?) }
RECURSIVE ReadVecLoop(_, _, _, _, _, _)
ReadVecLoop(e, w, src, i, len, acc) ==
    IF i >= len THEN Ok(acc, src)
    ELSE LET x == ReadElem(e, w, src) IN
         IF ~x.ok THEN map_err_prepend(x, Element(i))
         ELSE ReadVecLoop(e, w, x.rest, i + 1, len, Append(acc, x.val))

\* Reader::i8_vec / i32_vec / i64_vec: an i32 length in the encoding's own
\* form, refused when negative, then that many elements
ReadVec(e, w, src) ==
    LET len == i32(e, src) IN
    IF ~len.ok THEN len
    ELSE IF IsNegative(len.val)
    THEN NBTError_new(SeqLengthViolation(I32_MAX, BitsSigned(len.val)))
    ELSE ReadVecLoop(e, w, len.rest, 0, BitsSigned(len.val), <<>>)

i8_vec(e, src) == ReadVec(e, 8, src)
i32_vec(e, src) == ReadVec(e, 32, src)
i64_vec(e, src) == ReadVec(e, 64, src)

(***************************************************************************)
(* The tag tree (lib.rs, tag.rs).  A tag is <<variant, payload>>; a string *)
(* payload is <<"Utf8", chars>> or <<"Bytes", bytes>>; a compound is the   *)
(* sequence of its entries <<key, value>> in insertion order (an           *)
(* IndexMap), keys unique.  Path parts and inner errors are pairs too,     *)
(* the variant name first.                                                 *)
(***************************************************************************)
Tag(t, v) == <<t, v>>
Utf8(s) == <<"Utf8", s>>
Bytes(b) == <<"Bytes", b>>
Entry(k, val) == <<k, val>>

\* NBTTag::tag_id
tag_id(x) ==
    CASE x[1] = "Byte" -> 1
      [] x[1] = "Short" -> 2
      [] x[1] = "Int" -> 3
      [] x[1] = "Long" -> 4
      [] x[1] = "Float" -> 5
      [] x[1] = "Double" -> 6
      [] x[1] = "String" -> 8
      [] x[1] = "Compound" -> 10
      [] x[1] = "List" -> 9
      [] x[1] = "ByteArray" -> 7
      [] x[1] = "IntArray" -> 11
      [] x[1] = "LongArray" -> 12

\* NBTTag::tag_type: the NBTTagType of the variant
tag_type(x) == x[1]

\* a map insert that keeps the value a key already has
map_insert_first(m, k, val) ==
    IF \E j \in 1..Len(m) : m[j][1] = k THEN m ELSE Append(m, Entry(k, val))

\* IndexMap::insert: a present key keeps its place and takes the new value,
\* a new key goes last
map_insert(m, k, val) ==
    IF \E j \in 1..Len(m) : m[j][1] = k
    THEN [j \in 1..Len(m) |-> IF m[j][1] = k THEN Entry(k, val) ELSE m[j]]
    ELSE Append(m, Entry(k, val))

\* Option
Some(x) == <<"Some", x>>
None == <<"None">>

\* IndexMap::get through Compound's Deref: the value under the key, if any
get(m, key) ==
    IF \E j \in 1..Len(m) : m[j][1] = key
    THEN Some(m[CHOOSE j \in 1..Len(m) : m[j][1] = key][2])
    ELSE None

\* a typed accessor that does not look at the variant of what it found
get_variant_any(m, key, variant) ==
    LET found == get(m, key) IN
    IF found[1] = "Some" THEN Some(found[2][2]) ELSE None

\* match self.get(key) { Some(NBTTag::V(val)) => Some(val), _ => None }
get_variant(m, key, variant) ==
    LET found == get(m, key) IN
    IF found[1] = "Some" /\ found[2][1] = variant THEN Some(found[2][2]) ELSE None

\* Compound::get_byte .. get_long_array
get_byte(m, key) == get_variant(m, key, "Byte")
get_short(m, key) == get_variant(m, key, "Short")
get_int(m, key) == get_variant(m, key, "Int")
get_long(m, key) == get_variant(m, key, "Long")
get_float(m, key) == get_variant(m, key, "Float")
get_double(m, key) == get_variant(m, key, "Double")
get_string(m, key) == get_variant(m, key, "String")
get_compound(m, key) == get_variant(m, key, "Compound")
get_list(m, key) == get_variant(m, key, "List")
get_byte_array(m, key) == get_variant(m, key, "ByteArray")
get_int_array(m, key) == get_variant(m, key, "IntArray")
get_long_array(m, key) == get_variant(m, key, "LongArray")

\* the accessor of the variant with tag id `id`
Accessor(id, m, key) ==
    CASE id = 1 -> get_byte(m, key)
      [] id = 2 -> get_short(m, key)
      [] id = 3 -> get_int(m, key)
      [] id = 4 -> get_long(m, key)
      [] id = 5 -> get_float(m, key)
      [] id = 6 -> get_double(m, key)
      [] id = 7 -> get_byte_array(m, key)
      [] id = 8 -> get_string(m, key)
      [] id = 9 -> get_list(m, key)
      [] id = 10 -> get_compound(m, key)
      [] id = 11 -> get_int_array(m, key)
      [] id = 12 -> get_long_array(m, key)

\* f32 / f64 PartialEq on bit patterns: a NaN equals nothing, the two zeros
\* are equal (the exponent is the 8 or 11 bits below the sign bit)
IsNaN(b) ==
    LET m == IF Len(b) = 32 THEN 23 ELSE 52 IN
    /\ \A i \in (m + 1)..(Len(b) - 1) : b[i] = 1
    /\ \E i \in 1..m : b[i] = 1

FloatEq(a, b) ==
    /\ ~IsNaN(a) /\ ~IsNaN(b)
    /\ \/ a = b
       \/ \A i \in 1..(Len(a) - 1) : a[i] = 0 /\ b[i] = 0

\* #[derive(PartialEq)] on NBTTag and its payloads: lists compare in order,
\* compounds as maps (the order of the entries does not count)
RECURSIVE TagEq(_, _)
TagEq(a, b) ==
    /\ a[1] = b[1]
    /\ CASE a[1] = "List" ->
              /\ Len(a[2]) = Len(b[2])
              /\ \A i \in 1..Len(a[2]) : TagEq(a[2][i], b[2][i])
         [] a[1] = "Compound" ->
              /\ Len(a[2]) = Len(b[2])
              /\ \A i \in 1..Len(a[2]) : \E j \in 1..Len(b[2]) :
                    a[2][i][1] = b[2][j][1] /\ TagEq(a[2][i][2], b[2][j][2])
         [] a[1] \in {"Float", "Double"} -> FloatEq(a[2], b[2])
         [] OTHER -> a[2] = b[2]

\* a String::read_payload without the fallback: InvalidString is passed on
String_read_payload_strict(e, src) ==
    LET str == string(e, src) IN
    IF str.ok THEN Ok(Utf8(str.val), str.rest) ELSE str

\* impl TagIo for tag::String, read_payload: InvalidString becomes Bytes,
\* every other outcome of Reader::string is passed on
String_read_payload(e, src) ==
    LET str == string(e, src) IN
    IF ~str.ok /\ Kind(str.err) = "InvalidString"
    THEN Ok(Bytes(Carried(str.err)), StringBytes(e, src).rest)
    ELSE IF str.ok THEN Ok(Utf8(str.val), str.rest)
    ELSE str

\* Ok(NBTTag::X(inner?)): wrap a payload in its variant
Wrap(t, r) == IF r.ok THEN Ok(Tag(t, r.val), r.rest) ELSE r

RECURSIVE read_payload(_, _, _)
RECURSIVE ListLoop(_, _, _, _, _, _)
RECURSIVE CompoundLoop(_, _, _)

\* a List::read_payload that looks at the element-type id before the length
List_read_payload_checked(e, src) ==
    LET content_type == u8(e, src) IN
    IF ~content_type.ok THEN content_type
    ELSE IF content_type.val \notin 1..12
    THEN NBTError_new(UnknownTagType(content_type.val))
    ELSE LET len == i32(e, content_type.rest) IN
         IF ~len.ok THEN len
         ELSE IF IsNegative(len.val)
         THEN NBTError_new(SeqLengthViolation(I32_MAX, SignedBits(BitsSigned(len.val), 64)))
         ELSE ListLoop(e, content_type.val, len.rest, 0, BitsSigned(len.val), <<>>)

\* impl TagIo for tag::List, read_payload
List_read_payload(e, src) ==
    LET content_type == u8(e, src) IN
    IF ~content_type.ok THEN content_type
    ELSE LET len == i32(e, content_type.rest) IN
         IF ~len.ok THEN len
         ELSE IF IsNegative(len.val)
         THEN NBTError_new(SeqLengthViolation(I32_MAX, SignedBits(BitsSigned(len.val), 64)))
         ELSE ListLoop(e, content_type.val, len.rest, 0, BitsSigned(len.val), <<>>)

\* a list loop that decodes every element after the first as a Byte
RECURSIVE ListLoop_rest_as_byte(_, _, _, _, _, _)
ListLoop_rest_as_byte(e, content_type, src, i, len, acc) ==
    IF i >= len THEN Ok(acc, src)
    ELSE LET x == read_payload(IF i = 0 THEN content_type ELSE 1, e, src) IN
         IF ~x.ok THEN map_err_prepend(x, Element(i))
         ELSE ListLoop_rest_as_byte(e, content_type, x.rest, i + 1, len, Append(acc, x.val))

\* for i in 0..len { vec.push(NBTTag::read_payload(content_type, ..)
\*                            .map_err(|err| err.prepend(Element(i)))?) }
ListLoop(e, content_type, src, i, len, acc) ==
    IF i >= len THEN Ok(acc, src)
    ELSE LET x == read_payload(content_type, e, src) IN
         IF ~x.ok THEN map_err_prepend(x, Element(i))
         ELSE ListLoop(e, content_type, x.rest, i + 1, len, Append(acc, x.val))

\* impl TagIo for tag::Compound, read_payload: entries until an END id
Compound_read_payload(e, src) == CompoundLoop(e, src, <<>>)

CompoundLoop(e, src, map) ==
    LET content_type == u8(e, src) IN
    IF ~content_type.ok THEN content_type
    ELSE IF content_type.val = 0 THEN Ok(map, content_type.rest)
    ELSE LET name == string(e, content_type.rest) IN
         IF ~name.ok THEN name
         ELSE LET value == read_payload(content_type.val, e, name.rest) IN
              IF ~value.ok THEN map_err_prepend(value, MapKey(name.val))
              ELSE CompoundLoop(e, value.rest, map_insert(map, name.val, value.val))

\* an NBTTag::read that takes a top-level END id for an empty compound
NBTTag_read_end(e, src) ==
    LET id == u8(e, src) IN
    IF ~id.ok THEN id
    ELSE LET name == string(e, id.rest) IN
         IF ~name.ok THEN name
         ELSE IF id.val = 0 THEN Ok(Tag("Compound", <<>>), name.rest)
         ELSE read_payload(id.val, e, name.rest)

\* NBTTag::read_payload: dispatch on the tag id
read_payload(id, e, src) ==
    CASE id = 1 -> Wrap("Byte", i8(e, src))
      [] id = 2 -> Wrap("Short", i16(e, src))
      [] id = 3 -> Wrap("Int", i32(e, src))
      [] id = 4 -> Wrap("Long", i64(e, src))
      [] id = 5 -> Wrap("Float", f32(e, src))
      [] id = 6 -> Wrap("Double", f64(e, src))
      [] id = 8 -> Wrap("String", String_read_payload(e, src))
      [] id = 10 -> Wrap("Compound", Compound_read_payload(e, src))
      [] id = 9 -> Wrap("List", List_read_payload(e, src))
      [] id = 7 -> Wrap("ByteArray", i8_vec(e, src))
      [] id = 11 -> Wrap("IntArray", i32_vec(e, src))
      [] id = 12 -> Wrap("LongArray", i64_vec(e, src))
      [] OTHER -> NBTError_new(UnknownTagType(id))

\* NBTTag::read: the tag id, the root name (read and dropped), the payload
NBTTag_read(e, src) ==
    LET id == u8(e, src) IN
    IF ~id.ok THEN id
    ELSE LET name == string(e, id.rest) IN
         IF ~name.ok THEN name
         ELSE read_payload(id.val, e, name.rest)

\* the value inside the variant of a read result
Unwrap(r) == IF r.ok THEN Ok(r.val[2], r.rest) ELSE r

\* X::read_payload of the tag type whose id is n: the payload reader that
\* arm n of NBTTag::read_payload wraps in its variant; the typed reader
\* returns the bare value
Typed_read_payload(n, e, src) == Unwrap(read_payload(n, e, src))

\* a typed read that reads the name before it looks at the tag id
Typed_read_name_first(n, e, src) ==
    LET tag_id_ == u8(e, src) IN
    IF ~tag_id_.ok THEN tag_id_
    ELSE LET name == string(e, tag_id_.rest) IN
         IF ~name.ok THEN name
         ELSE IF tag_id_.val # n THEN NBTError_new(UnexpectedTag(n, tag_id_.val))
         ELSE Typed_read_payload(n, e, name.rest)

\* X::read (impl_tagtype!): the tag id, refused when it is not n, then the
\* root name (read and dropped), then the payload
Typed_read(n, e, src) ==
    LET tag_id_ == u8(e, src) IN
    IF ~tag_id_.ok THEN tag_id_
    ELSE IF tag_id_.val # n THEN NBTError_new(UnexpectedTag(n, tag_id_.val))
    ELSE LET name == string(e, tag_id_.rest) IN
         IF ~name.ok THEN name
         ELSE Typed_read_payload(n, e, name.rest)

\* the clamp of the capacities reserved by the Reader trait's defaults
CapacityClamp == 1024

Min(a, b) == IF a < b THEN a ELSE b

\* the argument of the Vec::with_capacity that Reader::string or
\* NetworkLittleEndian::string reaches on the source, None when the length
\* prefix fails first: len.min(1024) in the trait, len as usize in the
\* network form
string_capacity(e, src) ==
    IF e = NetworkLittleEndian
    THEN LET len == UVarint(src, Zeros(32), 0, 35) IN
         IF ~len.ok THEN None ELSE Some(U32Len(len.val))
    ELSE LET len == i16(e, src) IN
         IF ~len.ok \/ IsNegative(len.val) THEN None
         ELSE Some(Min(BitsSigned(len.val), CapacityClamp))

\* the same for Reader::i8_vec (len.min(1024)) and i32_vec / i64_vec
\* (len.min(1024 / size_of::<i64>()))
vec_capacity(e, w, src) ==
    LET len == i32(e, src) IN
    IF ~len.ok \/ IsNegative(len.val) THEN None
    ELSE Some(Min(BitsSigned(len.val),
                  IF w = 8 THEN CapacityClamp ELSE CapacityClamp \div 8))

\* the same for List::read_payload: Vec::with_capacity(len as usize)
List_capacity(e, src) ==
    LET content_type == u8(e, src) IN
    IF ~content_type.ok THEN None
    ELSE LET len == i32(e, content_type.rest) IN
         IF ~len.ok \/ IsNegative(len.val) THEN None
         ELSE Some(BitsSigned(len.val))

\* the capacity reserved by the payload reader of the variant with tag id n
Capacity(n, e, src) ==
    CASE n = 8 -> string_capacity(e, src)
      [] n = 7 -> vec_capacity(e, 8, src)
      [] n = 11 -> vec_capacity(e, 32, src)
      [] n = 12 -> vec_capacity(e, 64, src)
      [] n = 9 -> List_capacity(e, src)

(***************************************************************************)
(* Writer: a write result is the bytes the call appended to the sink and,  *)
(* on failure, the error; bytes appended before a failure stay in the sink. *)
(***************************************************************************)
WOk(bytes) == [ok |-> TRUE, buf |-> bytes]
WErr(inner, path, bytes) == [ok |-> FALSE, err |-> inner, path |-> path, buf |-> bytes]

\* the result r of a call made after `bytes` were already appended
\* a sink that is emptied when the write fails
After_rollback(bytes, r) ==
    IF r.ok THEN [r EXCEPT !.buf = bytes \o @] ELSE [r EXCEPT !.buf = <<>>]

After(bytes, r) == [r EXCEPT !.buf = bytes \o @]

\* the unsigned varint of a length (NetworkLittleEndian::write_string)
LenVarint(n) == VarintBytes(NatBits(n, 32))

\* a write_string that bounds the number of characters, not of encoded bytes
write_string_chars(e, x) ==
    LET modified_bytes == to_java_cesu8(x) IN
    IF Len(x) > I16_MAX
    THEN WErr(SeqLengthViolation(I16_MAX, Len(x)), <<>>, <<>>)
    ELSE IF e = NetworkLittleEndian
    THEN WOk(LenVarint(Len(modified_bytes)) \o modified_bytes)
    ELSE WOk(write_i16(e, NatBits(Len(modified_bytes), 16)) \o modified_bytes)

\* Writer::write_string (writer.rs) and NetworkLittleEndian::write_string
\* (encoding.rs): the Modified UTF-8 bytes behind their length, an i16 or,
\* in network mode, an unsigned varint; nothing is written when they are
\* longer than i16::MAX
write_string(e, x) ==
    LET modified_bytes == to_java_cesu8(x) IN
    IF Len(modified_bytes) > I16_MAX
    THEN WErr(SeqLengthViolation(I16_MAX, Len(modified_bytes)), <<>>, <<>>)
    ELSE IF e = NetworkLittleEndian
    THEN WOk(LenVarint(Len(modified_bytes)) \o modified_bytes)
    ELSE WOk(write_i16(e, NatBits(Len(modified_bytes), 16)) \o modified_bytes)

\* one element of an array: Writer::write_i8, write_i32 or write_i64
WriteElem(e, w, x) ==
    IF w = 8 THEN write_i8(e, x) ELSE IF w = 32 THEN write_i32(e, x) ELSE write_i64(e, x)

\* x.len() > i32::MAX as usize, on a usize of 64 bits
ExceedsI32Max(len) == \E i \in 32..64 : len[i] = 1

\* the head of Writer::write_*_vec for a slice of `len` elements (a usize):
\* if x.len() > i32::MAX as usize { return Err(SeqLengthViolation(..)) }
\* Self::write_i32(buf, x.len() as i32)?
write_vec_len(e, len) ==
    IF ExceedsI32Max(len)
    THEN WErr(SeqLengthViolation(I32_MAX, len), <<>>, <<>>)
    ELSE WOk(write_i32(e, SubSeq(len, 1, 32)))

\* the bytes `more` appended after a write that went well
After3(r, more) == IF r.ok THEN WOk(r.buf \o more) ELSE r

\* a write_*_vec whose length is a fixed-width i32 in every encoding
WriteVec_fixed(e, w, x) ==
    WOk(FixedBytes(e, NatBits(Len(x), 32))
        \o Concat([i \in 1..Len(x) |-> WriteElem(e, w, x[i])]))

\* Writer::write_i8_vec / write_i32_vec / write_i64_vec: the length as an
\* i32 in the encoding's own form, then the elements
WriteVec(e, w, x) ==
    After3(write_vec_len(e, NatBits(Len(x), 64)),
           Concat([i \in 1..Len(x) |-> WriteElem(e, w, x[i])]))

write_i8_vec(e, x) == WriteVec(e, 8, x)
write_i32_vec(e, x) == WriteVec(e, 32, x)
write_i64_vec(e, x) == WriteVec(e, 64, x)

\* impl TagIo for tag::String, write_payload: Utf8 goes through
\* write_string; Bytes are written behind write_i16 of their length, in
\* every encoding
String_write_payload(e, x) ==
    IF x[1] = "Utf8" THEN write_string(e, x[2])
    ELSE IF Len(x[2]) > I16_MAX
    THEN WErr(SeqLengthViolation(I16_MAX, Len(x[2])), <<>>, <<>>)
    ELSE WOk(write_i16(e, NatBits(Len(x[2]), 16)) \o x[2])

\* the element-type id List::write_payload gives an empty list:
\* NBTTag::Byte(0.into()).tag_id()
EmptyListId == tag_id(Tag("Byte", Zeros(8)))

RECURSIVE write_payload(_, _)
RECURSIVE ListWriteLoop(_, _, _, _)
RECURSIVE CompoundWriteLoop(_, _, _)

\* a first_id that gives an empty list the END id
first_id_end(list) == IF list = <<>> THEN 0 ELSE tag_id(list[1])

\* let first_id = if self.0.is_empty() { .. } else { self.0[0].tag_id() }
first_id(list) == IF list = <<>> THEN EmptyListId ELSE tag_id(list[1])

\* the head of List::write_payload for a list of `len` elements (a usize):
\* w.write_u8(buf, first_id)?; w.write_i32(buf, self.len() as i32)?
write_list_head(e, first, len) == write_u8(e, first) \o write_i32(e, SubSeq(len, 1, 32))

\* impl TagIo for tag::List, write_payload
List_write_payload(e, list) ==
    After(write_list_head(e, first_id(list), NatBits(Len(list), 64)),
          ListWriteLoop(e, list, first_id(list), 1))

\* a list loop that counts the elements from 1 in the path
RECURSIVE ListWriteLoop_from1(_, _, _, _)
ListWriteLoop_from1(e, list, first, i) ==
    IF i > Len(list) THEN WOk(<<>>)
    ELSE IF tag_id(list[i]) # first
    THEN WErr(UnexpectedTag(tag_type(list[1]), tag_type(list[i])),
              Path_from_single(Element(i)), <<>>)
    ELSE LET r == write_payload(e, list[i]) IN
         IF ~r.ok THEN r
         ELSE After(r.buf, ListWriteLoop_from1(e, list, first, i + 1))

\* for (i, v) in self.0.iter().enumerate(): a differing tag id ends the
\* write with UnexpectedTag at Element(i) (i counts from 0); the error of
\* v.write_payload(buf, w)? is returned as it is
ListWriteLoop(e, list, first, i) ==
    IF i > Len(list) THEN WOk(<<>>)
    ELSE IF tag_id(list[i]) # first
    THEN WErr(UnexpectedTag(tag_type(list[1]), tag_type(list[i])),
              Path_from_single(Element(i - 1)), <<>>)
    ELSE LET r == write_payload(e, list[i]) IN
         IF ~r.ok THEN r
         ELSE After(r.buf, ListWriteLoop(e, list, first, i + 1))

\* impl TagIo for tag::Compound, write_payload
Compound_write_payload(e, map) == CompoundWriteLoop(e, map, 1)

\* for (name, val) in &self.0 { id, name, payload } then write_end; the
\* error of val.write_payload(buf, w)? is returned as it is
CompoundWriteLoop(e, map, i) ==
    IF i > Len(map) THEN WOk(write_end(e))
    ELSE LET id == write_u8(e, tag_id(map[i][2]))
             name == write_string(e, map[i][1])
         IN IF ~name.ok THEN After(id, name)
            ELSE LET r == write_payload(e, map[i][2]) IN
                 IF ~r.ok THEN After(id \o name.buf, r)
                 ELSE After(id \o name.buf \o r.buf, CompoundWriteLoop(e, map, i + 1))

\* NBTTag::write_payload: dispatch on the variant
write_payload(e, x) ==
    CASE x[1] = "Byte" -> WOk(write_i8(e, x[2]))
      [] x[1] = "Short" -> WOk(write_i16(e, x[2]))
      [] x[1] = "Int" -> WOk(write_i32(e, x[2]))
      [] x[1] = "Long" -> WOk(write_i64(e, x[2]))
      [] x[1] = "Float" -> WOk(write_f32(e, x[2]))
      [] x[1] = "Double" -> WOk(write_f64(e, x[2]))
      [] x[1] = "String" -> String_write_payload(e, x[2])
      [] x[1] = "Compound" -> Compound_write_payload(e, x[2])
      [] x[1] = "List" -> List_write_payload(e, x[2])
      [] x[1] = "ByteArray" -> write_i8_vec(e, x[2])
      [] x[1] = "IntArray" -> write_i32_vec(e, x[2])
      [] x[1] = "LongArray" -> write_i64_vec(e, x[2])

\* an NBTTag::write that leaves the root name out altogether
NBTTag_write_unnamed(e, x) == After(write_u8(e, tag_id(x)), write_payload(e, x))

\* NBTTag::write: the tag id, an empty root name, the payload
NBTTag_write(e, x) ==
    LET id == write_u8(e, tag_id(x))
        name == write_string(e, <<>>)
    IN IF ~name.ok THEN After(id, name)
       ELSE After(id \o name.buf, write_payload(e, x))

(***************************************************************************)
(* The values the model is run on.                                         *)
(***************************************************************************)
MaxListLen == 2

\* i64::MIN and i64::MAX
MinI64 == [i \in 1..64 |-> IF i = 64 THEN 1 ELSE 0]
MaxI64 == BitNot(MinI64)

Int32Values == {0, 1, -1, 63, 64, -64, -65, 305419896, I32_MAX, -I32_MAX - 1}
Int64Values == {SignedBits(n, 64) : n \in {0, 10, -1, -2, 64, -65, I32_MAX}} \cup {MinI64, MaxI64}

\* 1.0f32 and -0.0f32, 1.0f64, as bit patterns
Float32Values == {NatBits(1065353216, 32), [i \in 1..32 |-> IF i = 32 THEN 1 ELSE 0]}
Float64Values == {[i \in 1..64 |-> IF i \in 53..62 THEN 1 ELSE 0]}

\* strs: "", "a", "name", "\0", "\0\0", "e-acute euro", one supplementary char
Strs == {<<>>, <<97>>, <<110, 97, 109, 101>>, <<0>>, <<0, 0>>, <<233, 8364>>, <<128512>>}

\* byte strings: not Modified UTF-8 (a lone continuation byte, the payload
\* of the crate's own test, a lone surrogate half), plain ASCII, a raw NUL,
\* C0 80, a four-byte UTF-8 char, and the empty one
ByteStrs == {<<128>>, <<0, 0, 0, 128>>, <<237, 160, 189>>, <<97>>, <<0>>,
             <<192, 128>>, <<240, 159, 152, 128>>, <<>>}

\* an array long enough for its length to take two bytes as a varint
LongArrayLen == 64

LeafTags ==
    {Tag("Byte", SignedBits(n, 8)) : n \in {-1, 100}}
    \cup {Tag("Short", SignedBits(n, 16)) : n \in {1, -2}}
    \cup {Tag("Int", SignedBits(n, 32)) : n \in Int32Values}
    \cup {Tag("Long", x) : x \in Int64Values}
    \cup {Tag("Float", x) : x \in Float32Values}
    \cup {Tag("Double", x) : x \in Float64Values}
    \cup {Tag("String", Utf8(x)) : x \in Strs}
    \cup {Tag("String", Bytes(x)) : x \in ByteStrs}
    \cup {Tag("ByteArray", x) : x \in {<<>>, <<SignedBits(1, 8), SignedBits(-2, 8), SignedBits(3, 8)>>,
                                       [i \in 1..LongArrayLen |-> SignedBits(1, 8)]}}
    \cup {Tag("IntArray", x) : x \in {<<>>, <<SignedBits(-1, 32), SignedBits(64, 32)>>}}
    \cup {Tag("LongArray", x) : x \in {<<>>, <<SignedBits(-1, 64), MinI64>>}}

\* every sequence over S of at most n elements
SeqsUpTo(S, n) == UNION {[1..k -> S] : k \in 0..n}

Keys == {<<97>>, <<98>>}

\* every compound over the keys with values in S: keys are unique
CompoundsOf(S) ==
    {<<>>}
    \cup {<<Entry(k, x)>> : k \in Keys, x \in S}
    \cup {<<Entry(k[1], x), Entry(k[2], y)>> :
            k \in {kk \in Keys \X Keys : kk[1] # kk[2]}, x \in S, y \in S}

ElemTags ==
    {Tag("Byte", SignedBits(1, 8)), Tag("Int", SignedBits(-1, 32)), Tag("String", Utf8(<<97>>))}

Depth1Tags ==
    {Tag("List", l) : l \in SeqsUpTo(ElemTags, MaxListLen)}
    \cup {Tag("Compound", m) : m \in CompoundsOf(ElemTags)}

\* what the second level is built of: scalars, an array, the empty and a
\* one-element list, a list of two variants, two compounds
MidTags ==
    {Tag("Byte", SignedBits(1, 8)),
     Tag("ByteArray", <<SignedBits(4, 8), SignedBits(5, 8)>>),
     Tag("List", <<>>),
     Tag("List", <<Tag("Byte", SignedBits(3, 8))>>),
     Tag("List", <<Tag("Byte", SignedBits(1, 8)), Tag("Int", SignedBits(10, 32))>>),
     Tag("Compound", <<>>),
     Tag("Compound", <<Entry(<<97>>, Tag("Long", SignedBits(10, 64)))>>)}

Depth2Tags ==
    {Tag("List", l) : l \in SeqsUpTo(MidTags, MaxListLen)}
    \cup {Tag("Compound", m) : m \in CompoundsOf(MidTags)}

\* third level: a list of two variants two containers deep
DeepTags ==
    {Tag("List", <<Tag("List", <<Tag("Byte", SignedBits(1, 8)), Tag("Int", SignedBits(10, 32))>>)>>),
     Tag("List", <<Tag("Compound", <<>>),
                   Tag("Compound", <<Entry(<<98>>, Tag("List", <<Tag("Short", SignedBits(1, 16)),
                                                                 Tag("Short", SignedBits(2, 16)),
                                                                 Tag("Byte", SignedBits(1, 8))>>))>>)>>),
     Tag("Compound", <<Entry(<<97>>, Tag("List", <<Tag("IntArray", <<SignedBits(7, 32)>>),
                                                   Tag("IntArray", <<>>)>>))>>)}

Depth3Tags ==
    {Tag("Compound", <<Entry(k, x)>>) : k \in Keys, x \in DeepTags}
    \cup {Tag("List", <<x>>) : x \in DeepTags}

TagTrees == LeafTags \cup Depth1Tags \cup Depth2Tags \cup Depth3Tags

\* n times the element c
Rep(c, n) == [i \in 1..n |-> c]

\* strings at and just over the bound of i16::MAX encoded bytes: NULs take
\* two bytes each in Modified UTF-8, a supplementary character six
LongStrs ==
    {Rep(97, I16_MAX), Rep(97, I16_MAX + 1),
     Rep(0, I16_MAX \div 2) \o <<97>>, Rep(0, (I16_MAX + 1) \div 2),
     Rep(128512, I16_MAX \div 6) \o <<97>>, Rep(128512, I16_MAX \div 6 + 1)}

\* tags that hold them: as text, as raw bytes and as the key of a compound
LongTags ==
    {Tag("String", Utf8(x)) : x \in LongStrs}
    \cup {Tag("String", Bytes(Rep(128, n))) : n \in {I16_MAX, I16_MAX + 1}}
    \cup {Tag("Compound", <<Entry(x, Tag("Byte", SignedBits(1, 8)))>>) :
             x \in {Rep(0, I16_MAX \div 2) \o <<97>>, Rep(0, (I16_MAX + 1) \div 2)}}

NoTag == Tag("None", <<>>)
NoPrim == [w |-> 0, x |-> <<>>]
Pending == [ok |-> FALSE, pending |-> TRUE]

(***************************************************************************)
(* Root frames as the wire format lays them out (the reader's side of      *)
(* lib.rs): id, root name, payload.  A string is its length prefix in the  *)
(* encoding's form followed by its bytes, whatever the bytes are.          *)
(***************************************************************************)
WireString(e, bytes) ==
    IF e = NetworkLittleEndian THEN LenVarint(Len(bytes)) \o bytes
    ELSE write_i16(e, NatBits(Len(bytes), 16)) \o bytes

WirePayload(e, x) ==
    IF x[1] = "String"
    THEN WireString(e, IF x[2][1] = "Utf8" THEN to_java_cesu8(x[2][2]) ELSE x[2][2])
    ELSE write_payload(e, x).buf

WireFrame(e, nm, x) == <<tag_id(x)>> \o WireString(e, nm) \o WirePayload(e, x)

\* a tree whose lists hold one variant each, at every depth
RECURSIVE Homogeneous(_)
Homogeneous(x) ==
    CASE x[1] = "List" ->
           \A i \in 1..Len(x[2]) : x[2][i][1] = x[2][1][1] /\ Homogeneous(x[2][i])
      [] x[1] = "Compound" -> \A i \in 1..Len(x[2]) : Homogeneous(x[2][i][2])
      [] OTHER -> TRUE

FrameTrees == {x \in TagTrees : Homogeneous(x)}

\* root names, as bytes; the last one is not Modified UTF-8
RootNames == {<<>>, <<97>>, <<128>>}

\* frames that no tree of the model encodes.  The frame of the crate's test
\* test_invalid_tagtype, 15 00 01 61 12 34 56 78 in BigEndian: tag id 0x15
Frame_UnknownId(e) == <<21>> \o WireString(e, <<97>>) \o <<18, 52, 86, 120>>

\* a compound whose only key is the byte 0x80, not Modified UTF-8
Frame_InvalidKey(e) ==
    <<10>> \o WireString(e, <<>>) \o <<1>> \o WireString(e, <<128>>) \o <<5, 0>>

\* a compound that holds the key "a" twice: a Byte, then a String whose
\* payload is the byte 0x80
Frame_RepeatedKey(e) ==
    <<10>> \o WireString(e, <<>>) \o <<1>> \o WireString(e, <<97>>) \o <<5>>
           \o <<8>> \o WireString(e, <<97>>) \o WireString(e, <<128>>) \o <<0>>

\* an empty list with element-type id 0
Frame_EndList(e) ==
    <<9>> \o WireString(e, <<>>) \o <<0>> \o write_i32(e, NatBits(0, 32))

\* a list of one element with element-type id 13
Frame_UnknownElem(e) ==
    <<9>> \o WireString(e, <<>>) \o <<13>> \o write_i32(e, NatBits(1, 32))

\* a compound holding under "b" a list of two lists, the second of which
\* declares the length -2
Frame_NegativeLen(e) ==
    <<10>> \o WireString(e, <<>>) \o <<9>> \o WireString(e, <<98>>)
           \o <<9>> \o write_i32(e, NatBits(2, 32))
           \o <<1>> \o write_i32(e, NatBits(0, 32))
           \o <<1>> \o write_i32(e, SignedBits(-2, 32))

\* a root list that stops after its element-type id and its length
ListHeadFrame(e, id, n) ==
    <<9>> \o WireString(e, <<>>) \o <<id>> \o write_i32(e, NatBits(n, 32))

\* the same list stored under the key "a" of a compound
NestedListHeadFrame(e, id, n) ==
    <<10>> \o WireString(e, <<>>) \o <<9>> \o WireString(e, <<97>>)
           \o <<id>> \o write_i32(e, NatBits(n, 32)) \o <<0>>

\* element-type ids: END, Byte, and two that are no tag id
ListHeadIds == {0, 1, 13, 255}

ListHeadFrames(e) ==
    {ListHeadFrame(e, id, n) : id \in ListHeadIds, n \in 0..MaxListLen}
    \cup {NestedListHeadFrame(e, id, n) :
            id \in ListHeadIds \ {1}, n \in 0..MaxListLen}
    \cup {NestedListHeadFrame(e, 1, 0)}

\* a root frame with the tag id `id`, the name `nm` and `rest` behind it
RootIdFrame(e, id, nm, rest) == <<id>> \o WireString(e, nm) \o rest

\* ids that are no tag id: END, the first one past LongArray, two with the
\* high bit set
BadRootIds == {0, 13, 128, 255}

\* such frames with a name that reads well, with the name missing and with a
\* name that is not Modified UTF-8
BadRootFrames(e) ==
    {RootIdFrame(e, id, nm, rest) :
        id \in BadRootIds, nm \in {<<>>, <<97>>}, rest \in {<<>>, <<0>>, <<1, 2, 3>>}}
    \cup {<<id>> : id \in BadRootIds}
    \cup {RootIdFrame(e, id, <<128>>, <<0>>) : id \in BadRootIds}

\* a root compound whose entries are the Byte values es[i][2] under the keys
\* es[i][1], in that order
ByteEntriesFrame(e, es) ==
    <<10>> \o WireString(e, <<>>)
           \o Concat([i \in 1..Len(es) |-> <<1>> \o WireString(e, es[i][1]) \o <<es[i][2]>>])
           \o <<0>>

\* two or three entries over the keys "a" and "b": most repeat a key
RepeatedEntries ==
    UNION {[1..k -> Keys \X {1, 3}] : k \in 2..3}

\* a root tag whose payload starts with the length len: id 7, 11 or 12 for
\* the arrays, 9 for a list of bytes, 8 for a string (an i16 length)
NegLenFrame(e, id, len, rest) ==
    <<id>> \o WireString(e, <<>>)
         \o (IF id = 9 THEN <<1>> ELSE <<>>)
         \o (IF id = 8 THEN write_i16(e, SignedBits(len, 16))
                       ELSE write_i32(e, SignedBits(len, 32)))
         \o rest

NegLens == {-1, -2, -128, -I16_MAX - 1}

NegLenFrames(e) ==
    {NegLenFrame(e, id, len, rest) :
        id \in (IF e = NetworkLittleEndian THEN {7, 9, 11, 12} ELSE {7, 8, 9, 11, 12}),
        len \in NegLens, rest \in {<<>>, <<5>>}}
    \cup {NegLenFrame(e, id, -I32_MAX - 1, <<>>) : id \in {7, 9, 11, 12}}

\* a root string in network form that declares n bytes and holds m of them
LongLenFrame(n, m) ==
    <<8>> \o WireString(NetworkLittleEndian, <<>>) \o LenVarint(n) \o Rep(97, m)

\* declared lengths over i16::MAX
LongLens == {I16_MAX + 1, 2 * I16_MAX + 1, 100000}

LongLenFrames(e) ==
    IF e = NetworkLittleEndian
    THEN {LongLenFrame(n, m) : n \in LongLens, m \in 0..MaxListLen}
    ELSE {}

LooseFrames(e) ==
    {Frame_UnknownId(e), Frame_InvalidKey(e), Frame_RepeatedKey(e),
     Frame_EndList(e), Frame_UnknownElem(e), Frame_NegativeLen(e)}
    \cup ListHeadFrames(e) \cup BadRootFrames(e) \cup NegLenFrames(e)
    \cup LongLenFrames(e)
    \cup {ByteEntriesFrame(e, es) : es \in RepeatedEntries}

(***************************************************************************)
(* The state machine: a caller of the library.  It either writes a tag and *)
(* reads the bytes back ("encode"), reads a frame and writes the decoded   *)
(* tag again ("decode"), or writes one integer and reads it back           *)
(* ("integer").                                                            *)
(***************************************************************************)
Prims ==
    {[w |-> 32, x |-> SignedBits(n, 32)] : n \in Int32Values}
    \cup {[w |-> 64, x |-> x] : x \in Int64Values}

\* the integers with one bit set, and those with one bit clear
EdgePrims ==
    UNION {{[w |-> w, x |-> [j \in 1..w |-> IF (j = i) = (b = 1) THEN 1 ELSE 0]] :
                i \in 1..w, b \in {0, 1}} : w \in {32, 64}}

InitEncode ==
    /\ scen = "encode"
    /\ tag \in TagTrees
    /\ root_name = <<>>
    /\ input = <<>>
    /\ prim = NoPrim

\* a caller that only writes, a tag with a string at the length bound
InitLimit ==
    /\ scen = "limit"
    /\ tag \in LongTags
    /\ root_name = <<>>
    /\ input = <<>>
    /\ prim = NoPrim

\* usize lengths around i32::MAX: small ones, i32::MAX itself, every power of
\* two from 2^29 up, and those plus one
UsizeLens ==
    {NatBits(n, 64) : n \in {0, 1, 2, I32_MAX, I32_MAX - 1}}
    \cup {[j \in 1..64 |-> IF j = i THEN 1 ELSE 0] : i \in 30..64}
    \cup {[j \in 1..64 |-> IF j = i \/ j = 1 THEN 1 ELSE 0] : i \in 30..64}
    \cup {[j \in 1..64 |-> 1]}

\* a caller writing a sequence of prim.x elements: only the length matters
InitLength ==
    /\ scen = "length"
    /\ tag = NoTag
    /\ root_name = <<>>
    /\ input = <<>>
    /\ prim \in {[w |-> 64, x |-> len] : len \in UsizeLens}

\* the longest run of continuation bytes tried: one more than an i64 reads
MaxRun == 11

\* sources for a single integer: a run of bytes with the high bit set, then
\* nothing, a last byte, or a last byte and more
VarintSources ==
    {Rep(c, k) \o t : c \in {128, 129, 255}, k \in 0..MaxRun,
                      t \in {<<>>, <<0>>, <<1>>, <<127, 128>>, <<1, 7>>}}

\* a caller reading one i32 or i64 off raw bytes
InitVarint ==
    /\ scen = "varint"
    /\ tag = NoTag
    /\ root_name = <<>>
    /\ input \in VarintSources
    /\ prim \in {[w |-> w, x |-> <<>>] : w \in {32, 64}}

\* one tag of each variant
VariantSamples ==
    {Tag("Byte", SignedBits(-1, 8)), Tag("Short", SignedBits(1, 16)),
     Tag("Int", SignedBits(-1, 32)), Tag("Long", MinI64),
     Tag("Float", NatBits(1065353216, 32)),
     Tag("Double", [i \in 1..64 |-> IF i \in 53..62 THEN 1 ELSE 0]),
     Tag("String", Utf8(<<97>>)), Tag("String", Bytes(<<128>>)),
     Tag("Compound", <<>>), Tag("Compound", <<Entry(<<97>>, Tag("Byte", SignedBits(1, 8)))>>),
     Tag("List", <<>>), Tag("List", <<Tag("Int", SignedBits(1, 32))>>),
     Tag("ByteArray", <<SignedBits(1, 8)>>), Tag("IntArray", <<>>),
     Tag("LongArray", <<MinI64>>)}

\* compounds of up to two entries over them
AccessCompounds ==
    {<<>>}
    \cup {<<Entry(k, x)>> : k \in Keys, x \in VariantSamples}
    \cup {<<Entry(k[1], x), Entry(k[2], y)>> :
            k \in {kk \in Keys \X Keys : kk[1] # kk[2]},
            x \in VariantSamples,
            y \in {Tag("Byte", SignedBits(-1, 8)), Tag("List", <<>>), Tag("Compound", <<>>)}}

\* the tag ids of the twelve variants
VariantIds == 1..12

\* a caller asking a compound for the child under the key prim.x with the
\* accessor of the variant prim.w; "c" is a key no compound holds
InitAccess ==
    /\ scen = "access"
    /\ enc = BigEndian
    /\ tag \in {Tag("Compound", m) : m \in AccessCompounds}
    /\ root_name = <<>>
    /\ input = <<>>
    /\ prim \in {[w |-> id, x |-> k] : id \in VariantIds, k \in Keys \cup {<<99>>}}

\* the longest path shown
MaxPathLen == 3

\* path parts: keys "a", "bc" and "", indices of one, two and three digits,
\* a struct field and a tuple field
PathParts ==
    {MapKey(<<97>>), MapKey(<<98, 99>>), MapKey(<<>>),
     Element(0), Element(7), Element(10), Element(305),
     Field(<<102>>), TupleField(2)}

\* a caller formatting the path prim.x of an error
InitDisplay ==
    /\ scen = "display"
    /\ enc = BigEndian
    /\ tag = NoTag
    /\ root_name = <<>>
    /\ input = <<>>
    /\ prim \in {[w |-> 0, x |-> p] : p \in SeqsUpTo(PathParts, MaxPathLen)}

\* sources for the typed readers: the frame of one tag of each variant under
\* the names "" and "a", whole and with its last byte missing, frames with
\* an id that is no tag id, an id and nothing else, an id and a name that is
\* not Modified UTF-8, and the empty source
TypedSources(e) ==
    {WireFrame(e, nm, x) : nm \in {<<>>, <<97>>}, x \in VariantSamples}
    \cup {SubSeq(WireFrame(e, <<>>, x), 1, Len(WireFrame(e, <<>>, x)) - 1) : x \in VariantSamples}
    \cup {WireFrame(e, <<>>, x) \o <<7>> : x \in VariantSamples}
    \cup BadRootFrames(e)
    \cup {<<id>> : id \in VariantIds}
    \cup {RootIdFrame(e, id, <<128>>, <<0>>) : id \in VariantIds}
    \cup {<<>>}

\* a caller reading a root of the variant with tag id prim.w
InitTyped ==
    /\ scen = "typed"
    /\ tag = NoTag
    /\ root_name = <<>>
    /\ input \in TypedSources(enc)
    /\ prim \in {[w |-> n, x |-> <<>>] : n \in VariantIds}

\* declared lengths around the clamps and far over them
HostileLens ==
    {0, 1, 127, 128, 129, 255, 256, 257, 1023, 1024, 1025, 4096, I16_MAX,
     I16_MAX + 1, 100000, 16777216, I32_MAX}

\* the head of the payload of the variant n declaring len elements: the
\* element id of a list, then the length prefix in the form the reader takes
PayloadHead(e, n, len) ==
    IF n = 8 THEN (IF e = NetworkLittleEndian THEN LenVarint(len)
                   ELSE write_i16(e, NatBits(len, 16)))
    ELSE (IF n = 9 THEN <<1>> ELSE <<>>) \o write_i32(e, NatBits(len, 32))

\* a payload reader given a source that declares prim.x elements and holds
\* none, or one byte
InitReserve ==
    /\ scen = "reserve"
    /\ tag = NoTag
    /\ root_name = <<>>
    /\ \E n \in {7, 8, 9, 11, 12}, len \in HostileLens, rest \in {<<>>, <<1>>} :
            /\ n = 8 /\ enc # NetworkLittleEndian => len <= I16_MAX
            /\ prim = [w |-> n, x |-> len]
            /\ input = PayloadHead(enc, n, len) \o rest

\* bytes that follow a frame in the source
Trailers == {<<>>, <<0>>, <<10, 0, 0>>, <<255, 1>>}

\* a caller that writes a tag and reads it back from a source where the
\* bytes `input` follow the frame
InitTrailing ==
    /\ scen = "trailing"
    /\ tag \in LeafTags \cup Depth1Tags
    /\ root_name = <<>>
    /\ input \in Trailers
    /\ prim = NoPrim

InitDecode ==
    /\ scen = "decode"
    /\ prim = NoPrim
    /\ \/ \E x \in FrameTrees, nm \in RootNames :
            /\ tag = x
            /\ root_name = nm
            /\ input = WireFrame(enc, nm, x)
       \/ \E x \in FrameTrees, nm \in {<<>>, <<97>>} :
            /\ nm = <<>> \/ x[1] = "Int"
            /\ tag = x
            /\ root_name = nm
            /\ \E k \in 0..(Len(WireFrame(enc, nm, x)) - 1) :
                    input = SubSeq(WireFrame(enc, nm, x), 1, k)
       \/ /\ tag = NoTag
          /\ root_name = <<>>
          /\ input \in LooseFrames(enc)

InitInteger ==
    /\ scen = "integer"
    /\ tag = NoTag
    /\ root_name = <<>>
    /\ input = <<>>
    /\ prim \in Prims \cup EdgePrims

Init ==
    /\ enc \in Encodings
    /\ pc = "start"
    /\ buf = <<>>
    /\ wres = Pending
    /\ rres = Pending
    /\ (InitEncode \/ InitDecode \/ InitInteger \/ InitLimit \/ InitLength \/ InitVarint
        \/ InitAccess \/ InitDisplay \/ InitTyped
        \/ InitReserve \/ InitTrailing)

\* nbt.write(&mut buf, &mut w) on an empty Vec
Write ==
    /\ scen \in {"encode", "limit", "trailing"} /\ pc = "start"
    /\ wres' = NBTTag_write(enc, tag)
    /\ buf' = wres'.buf
    /\ pc' = "written"
    /\ UNCHANGED <<scen, enc, tag, root_name, input, prim, rres>>

\* NBTTag::read(&mut buf.as_slice(), &mut r) on what a successful write left,
\* followed in the source by the bytes `input` (none in the encode scenario)
ReadBack ==
    /\ scen \in {"encode", "trailing"} /\ pc = "written" /\ wres.ok
    /\ rres' = NBTTag_read(enc, buf \o input)
    /\ pc' = "read"
    /\ UNCHANGED <<scen, enc, tag, root_name, input, prim, buf, wres>>

\* NBTTag::read on an input frame
Read ==
    /\ scen = "decode" /\ pc = "start"
    /\ rres' = NBTTag_read(enc, input)
    /\ pc' = "read"
    /\ UNCHANGED <<scen, enc, tag, root_name, input, prim, buf, wres>>

\* nbt.write on the tag a successful read returned
WriteBack ==
    /\ scen = "decode" /\ pc = "read" /\ rres.ok
    /\ wres' = NBTTag_write(enc, rres.val)
    /\ buf' = wres'.buf
    /\ pc' = "written"
    /\ UNCHANGED <<scen, enc, tag, root_name, input, prim, rres>>

\* w.write_i32(&mut buf, x) or w.write_i64(&mut buf, x)
WriteInteger ==
    /\ scen = "integer" /\ pc = "start"
    /\ buf' = IF prim.w = 32 THEN write_i32(enc, prim.x) ELSE write_i64(enc, prim.x)
    /\ wres' = WOk(buf')
    /\ pc' = "written"
    /\ UNCHANGED <<scen, enc, tag, root_name, input, prim, rres>>

\* r.i32(&mut buf.as_slice()) or r.i64(..) on the bytes just written
ReadInteger ==
    /\ scen = "integer" /\ pc = "written"
    /\ rres' = IF prim.w = 32 THEN i32(enc, buf) ELSE i64(enc, buf)
    /\ pc' = "read"
    /\ UNCHANGED <<scen, enc, tag, root_name, input, prim, buf, wres>>

\* the head of write_i8_vec / write_i32_vec / write_i64_vec for a vector of
\* prim.x elements: the length check and the length prefix
WriteVecLen ==
    /\ scen = "length" /\ pc = "start"
    /\ wres' = write_vec_len(enc, prim.x)
    /\ buf' = wres'.buf
    /\ pc' = "veclen"
    /\ UNCHANGED <<scen, enc, tag, root_name, input, prim, rres>>

\* the head of List::write_payload for a list of prim.x Byte tags: the
\* element id and the length prefix
WriteListHead ==
    /\ scen = "length" /\ pc = "start"
    /\ wres' = WOk(write_list_head(enc, 1, prim.x))
    /\ buf' = wres'.buf
    /\ pc' = "listhead"
    /\ UNCHANGED <<scen, enc, tag, root_name, input, prim, rres>>

\* r.i32(&mut input.as_slice()) or r.i64(..) on raw bytes
ReadVarint ==
    /\ scen = "varint" /\ pc = "start"
    /\ rres' = IF prim.w = 32 THEN i32(enc, input) ELSE i64(enc, input)
    /\ pc' = "read"
    /\ UNCHANGED <<scen, enc, tag, root_name, input, prim, buf, wres>>

\* c.get_byte(key) .. c.get_long_array(key)
GetTyped ==
    /\ scen = "access" /\ pc = "start"
    /\ rres' = [ok |-> TRUE, val |-> Accessor(prim.w, tag[2], prim.x)]
    /\ pc' = "got"
    /\ UNCHANGED <<scen, enc, tag, root_name, input, prim, buf, wres>>

\* format!("{}", path): the text the formatter received
DisplayPath ==
    /\ scen = "display" /\ pc = "start"
    /\ buf' = Path_fmt(prim.x)
    /\ wres' = WOk(buf')
    /\ pc' = "shown"
    /\ UNCHANGED <<scen, enc, tag, root_name, input, prim, rres>>

\* tag::X::read::<R>(&mut input.as_slice())
ReadTyped ==
    /\ scen = "typed" /\ pc = "start"
    /\ rres' = Typed_read(prim.w, enc, input)
    /\ pc' = "typed"
    /\ UNCHANGED <<scen, enc, tag, root_name, input, prim, buf, wres>>

\* the payload reader up to its Vec::with_capacity: the capacity it reserves
\* before it reads an element
Reserve ==
    /\ scen = "reserve" /\ pc = "start"
    /\ rres' = [ok |-> TRUE, val |-> Capacity(prim.w, enc, input)]
    /\ pc' = "reserved"
    /\ UNCHANGED <<scen, enc, tag, root_name, input, prim, buf, wres>>

Next ==
    \/ Write \/ ReadBack \/ Read \/ WriteBack \/ WriteInteger \/ ReadInteger
    \/ WriteVecLen \/ WriteListHead \/ ReadVarint \/ GetTyped
    \/ DisplayPath \/ ReadTyped \/ Reserve

Spec == Init /\ [][Next]_vars

(***************************************************************************)
(* Properties.                                                             *)
(***************************************************************************)
IsError(res, kind) == ~res.ok /\ Kind(res.err) = kind

\* C1 (round trip): whenever NBTTag::write accepted a tag in an encoding,
\* NBTTag::read of the written bytes in that encoding succeeds and returns
\* a tag equal to the one written.
C1_RoundTrip ==
    (scen = "encode" /\ pc = "read") => (rres.ok /\ TagEq(rres.val, tag))

\* C2 (varint zig-zag law): in NetworkLittleEndian, i32 applied to the bytes
\* of write_i32(x) returns x, and i64 applied to the bytes of write_i64(x)
\* returns x, for every x, negative ones included.
C2_ZigZagLaw ==
    (scen = "integer" /\ pc = "read" /\ enc = NetworkLittleEndian)
        => (rres.ok /\ rres.val = prim.x)

\* C3 (string fidelity): in every encoding a root String tag that was
\* written reads back as the same form, Bytes or Utf8, with the same
\* content.
C3_StringFidelity ==
    (scen = "encode" /\ pc = "read" /\ tag[1] = "String")
        => (rres.ok /\ rres.val = tag)

Primitive(x) == x[1] \in {"Byte", "Short", "Int", "Long", "Float", "Double"}

\* the input is the whole frame of the tree `tag` under the name `root_name`
WholeFrame == tag # NoTag /\ input = WireFrame(enc, root_name, tag)

\* C4 as stated (decode-then-encode byte identity at the root): a well-formed
\* big-endian root frame of a primitive tag, root name included, is
\* reproduced byte for byte by NBTTag::read followed by NBTTag::write.
C4_NamedFrameIdentity ==
    (scen = "decode" /\ pc = "written" /\ enc = BigEndian /\ WholeFrame
        /\ Primitive(tag))
        => (wres.ok /\ buf = input)

\* C4 amended: for a well-formed big-endian root frame of a primitive tag,
\* read followed by write produces the input frame with its root name
\* replaced by the empty name (id, 00 00, the payload bytes unchanged).
C4_FrameIdentityUpToName ==
    (scen = "decode" /\ pc = "written" /\ enc = BigEndian /\ WholeFrame
        /\ Primitive(tag))
        => /\ wres.ok
           /\ buf = <<input[1], 0, 0>>
                        \o SubSeq(input, 4 + Len(root_name), Len(input))

C4_Witness ==
    /\ scen = "decode" /\ pc = "written" /\ enc = BigEndian
    /\ root_name = <<97>>
    /\ input = <<3, 0, 1, 97, 18, 52, 86, 120>>
    /\ buf = <<3, 0, 0, 18, 52, 86, 120>>

\* C5 (string frame byte identity): every root String frame with an empty
\* root name that NBTTag::read decodes is reproduced byte for byte when the
\* decoded tag is written in the same encoding.
C5_StringFrameIdentity ==
    (scen = "decode" /\ pc = "written" /\ root_name = <<>>
        /\ input # <<>> /\ input[1] = 8)
        => (wres.ok /\ buf = input)

\* C6 as stated: NBTTag::read never returns an error of kind InvalidString,
\* whatever the input.
C6_NeverInvalidString == (pc = "read") => ~IsError(rres, "InvalidString")

\* C6 amended: the payload of a String tag that is not Modified UTF-8 never
\* fails the read, it becomes String::Bytes with the same bytes;
\* InvalidString is returned only for a root name or a compound key that is
\* not Modified UTF-8, and carries the bytes of that name.
C6_InvalidStringOnlyFromNames ==
    (pc = "read") =>
        /\ (scen = "decode" /\ WholeFrame /\ from_java_cesu8(root_name).ok
                /\ tag[1] = "String" /\ tag[2][1] = "Bytes"
                /\ ~from_java_cesu8(tag[2][2]).ok)
            => (rres.ok /\ rres.val = tag)
        /\ (scen = "decode" /\ input = Frame_RepeatedKey(enc))
            => (rres.ok /\ rres.val = Tag("Compound",
                    <<Entry(<<97>>, Tag("String", Bytes(<<128>>)))>>))
        /\ (scen = "decode" /\ WholeFrame /\ ~from_java_cesu8(root_name).ok)
            => (IsError(rres, "InvalidString") /\ rres.path = <<>>)
        /\ IsError(rres, "InvalidString")
            => /\ scen = "decode"
               /\ ~from_java_cesu8(Carried(rres.err)).ok
               /\ IF tag # NoTag
                  THEN WholeFrame /\ Carried(rres.err) = root_name
                  ELSE /\ \/ input = Frame_InvalidKey(enc)
                          \/ \E id \in BadRootIds :
                                input = RootIdFrame(enc, id, <<128>>, <<0>>)
                       /\ Carried(rres.err) = <<128>>

C6_Witness ==
    /\ scen = "decode" /\ pc = "read"
    /\ tag = Tag("String", Bytes(<<0, 0, 0, 128>>))
    /\ root_name = <<>> /\ WholeFrame
    /\ rres.ok /\ rres.val = Tag("String", Bytes(<<0, 0, 0, 128>>))

\* the list holds an element whose variant is not that of element 0
Mixed(l) == \E i \in 1..Len(l) : tag_type(l[i]) # tag_type(l[1])

\* the smallest such index, counted from 1
FirstMixed(l) ==
    CHOOSE i \in 1..Len(l) :
        /\ tag_type(l[i]) # tag_type(l[1])
        /\ \A j \in 1..(i - 1) : tag_type(l[j]) = tag_type(l[1])

RECURSIVE WriteFault(_)
RECURSIVE ListFault(_, _)
RECURSIVE CompoundFault(_, _)
WriteFault(x) ==
    CASE x[1] = "List" -> ListFault(x[2], 1)
      [] x[1] = "Compound" -> CompoundFault(x[2], 1)
      [] OTHER -> <<>>

ListFault(l, i) ==
    IF i > Len(l) THEN <<>>
    ELSE IF tag_type(l[i]) # tag_type(l[1]) THEN <<Element(i - 1)>>
    ELSE IF WriteFault(l[i]) # <<>> THEN <<Element(i - 1)>> \o WriteFault(l[i])
    ELSE ListFault(l, i + 1)

CompoundFault(m, i) ==
    IF i > Len(m) THEN <<>>
    ELSE IF WriteFault(m[i][2]) # <<>> THEN <<MapKey(m[i][1])>> \o WriteFault(m[i][2])
    ELSE CompoundFault(m, i + 1)

\* C8 (write-side error localisation): the path of an error returned by
\* NBTTag::write holds, outermost first, the MapKey / Element component of
\* every enclosing compound and list, then that of the offending element.
C8_WritePathFromRoot ==
    (scen = "encode" /\ pc = "written" /\ ~wres.ok) => wres.path = WriteFault(tag)

\* the bytes of the root frame before the payload: the id and the empty name
RootHeaderLen == IF enc = NetworkLittleEndian THEN 2 ELSE 3

PayloadBytes(st) == IF st[1] = "Utf8" THEN to_java_cesu8(st[2]) ELSE st[2]

\* where the source ends, `off` bytes into a string (length included): with
\* `strs` the index of the missing byte counts as a path component
StringCut(e, bytes, off, strs) ==
    LET p == Len(WireString(e, bytes)) - Len(bytes) IN
    IF strs /\ off >= p THEN <<Element(off - p)>> ELSE <<>>

ElemLen(e, b) == Len(WriteElem(e, Len(b), b))

RECURSIVE ArrayCut(_, _, _, _)
ArrayCut(e, arr, off, i) ==
    IF off < ElemLen(e, arr[i]) THEN <<Element(i - 1)>>
    ELSE ArrayCut(e, arr, off - ElemLen(e, arr[i]), i + 1)

\* the path from the root of the payload of x to the node that is being
\* decoded when the source ends `off` bytes into that payload
RECURSIVE PayloadCut(_, _, _, _)
RECURSIVE ListCut(_, _, _, _, _)
RECURSIVE CompoundCut(_, _, _, _, _)
PayloadCut(e, x, off, strs) ==
    CASE x[1] = "String" -> StringCut(e, PayloadBytes(x[2]), off, strs)
      [] x[1] \in {"ByteArray", "IntArray", "LongArray"} ->
           LET p == Len(write_i32(e, NatBits(Len(x[2]), 32))) IN
           IF off < p THEN <<>> ELSE ArrayCut(e, x[2], off - p, 1)
      [] x[1] = "List" ->
           LET p == 1 + Len(write_i32(e, NatBits(Len(x[2]), 32))) IN
           IF off < p THEN <<>> ELSE ListCut(e, x[2], off - p, 1, strs)
      [] x[1] = "Compound" -> CompoundCut(e, x[2], off, 1, strs)
      [] OTHER -> <<>>

ListCut(e, l, off, i, strs) ==
    LET n == Len(WirePayload(e, l[i])) IN
    IF off < n THEN <<Element(i - 1)>> \o PayloadCut(e, l[i], off, strs)
    ELSE ListCut(e, l, off - n, i + 1, strs)

CompoundCut(e, m, off, i, strs) ==
    IF i > Len(m) \/ off < 1 THEN <<>>
    ELSE LET key == to_java_cesu8(m[i][1])
             ks == Len(WireString(e, key))
             vs == Len(WirePayload(e, m[i][2]))
         IN IF off < 1 + ks THEN StringCut(e, key, off - 1, strs)
            ELSE IF off < 1 + ks + vs
            THEN <<MapKey(m[i][1])>> \o PayloadCut(e, m[i][2], off - 1 - ks, strs)
            ELSE CompoundCut(e, m, off - (1 + ks + vs), i + 1, strs)

\* the path to the failing node of the frame in `input`: a frame of the tree
\* `tag` cut short fails where it ends, a whole one (with a bad root name)
\* at the root; a list that stops after its length fails in its element 0, the
\* compound of Frame_NegativeLen in element 1 of the list under "b"
FailingNode(strs) ==
    IF tag # NoTag
    THEN IF Len(input) = 0 \/ WholeFrame THEN <<>>
         ELSE IF Len(input) < 1 + Len(WireString(enc, root_name))
         THEN StringCut(enc, root_name, Len(input) - 1, strs)
         ELSE PayloadCut(enc, tag, Len(input) - 1 - Len(WireString(enc, root_name)), strs)
    ELSE IF \E id \in ListHeadIds, n \in 1..MaxListLen :
                input = ListHeadFrame(enc, id, n)
    THEN <<Element(0)>>
    ELSE IF \E id \in ListHeadIds, n \in 1..MaxListLen :
                input = NestedListHeadFrame(enc, id, n)
    THEN <<MapKey(<<97>>), Element(0)>>
    ELSE IF input = Frame_NegativeLen(enc) THEN <<MapKey(<<98>>), Element(1)>>
    ELSE IF strs /\ enc = NetworkLittleEndian
            /\ \E n \in LongLens, m \in 0..MaxListLen : input = LongLenFrame(n, m)
    THEN <<Element(Len(input) - Len(LongLenFrame(I16_MAX + 1, 0)))>>
    ELSE <<>>

\* C9 as stated (read-side error localisation): the path of an error of
\* NBTTag::read lists, outermost first, MapKey(name) for every enclosing
\* compound child and Element(i) for every enclosing list or array index
\* down to the failing node, and nothing else; it is empty when the root
\* payload itself fails.
C9_ReadPathToNode ==
    (scen = "decode" /\ pc = "read" /\ ~rres.ok) => rres.path = FailingNode(FALSE)

\* C9 amended: the same path, followed by Element(j) when the source ends
\* inside the bytes of a string (a String payload, a compound key or the
\* root name), j being the index of the missing byte.
C9_ReadPathToNodeOrByte ==
    (scen = "decode" /\ pc = "read" /\ ~rres.ok) => rres.path = FailingNode(TRUE)

C9_Witness ==
    /\ scen = "decode" /\ pc = "read"
    /\ tag = Tag("Compound", <<Entry(<<97>>,
                Tag("ByteArray", <<SignedBits(4, 8), SignedBits(5, 8)>>))>>)
    /\ IsError(rres, "Io")
    /\ rres.path = <<MapKey(<<97>>), Element(1)>>

\* C11 (empty list, any element type): a List payload of length 0 decodes to
\* the empty list whatever its element-type id byte, END and ids that are no
\* tag id included; with a positive length an id that is no tag id fails
\* with UnknownTagType(id) at the path of element 0.
C11_EmptyListAnyElementType ==
    (scen = "decode" /\ pc = "read") =>
        \A id \in ListHeadIds, n \in 0..MaxListLen :
            /\ input = ListHeadFrame(enc, id, n) =>
                  IF n = 0 THEN rres.ok /\ rres.val = Tag("List", <<>>)
                  ELSE id \notin 1..12 =>
                        /\ ~rres.ok
                        /\ rres.err = UnknownTagType(id)
                        /\ rres.path = <<Element(0)>>
            /\ (input = NestedListHeadFrame(enc, id, n) /\ input \in ListHeadFrames(enc)) =>
                  IF n = 0
                  THEN rres.ok /\ rres.val =
                          Tag("Compound", <<Entry(<<97>>, Tag("List", <<>>))>>)
                  ELSE /\ ~rres.ok
                       /\ rres.err = UnknownTagType(id)
                       /\ rres.path = <<MapKey(<<97>>), Element(0)>>

C11_Witness ==
    /\ scen = "decode" /\ pc = "read"
    /\ input = ListHeadFrame(enc, 255, 0)
    /\ rres.ok /\ rres.val = Tag("List", <<>>)

Sequences == {"ByteArray", "IntArray", "LongArray", "List"}

\* the bytes of the length in a root frame written in network mode: they
\* follow the id and the empty name, and in a list the element-type id
LengthBytes(k) ==
    LET from == RootHeaderLen + (IF tag[1] = "List" THEN 2 ELSE 1) IN
    SubSeq(buf, from, IF from + k - 1 > Len(buf) THEN Len(buf) ELSE from + k - 1)

\* the zig-zag varint of a length n < 8192: the unsigned varint of 2n
ZigZagLength(n) ==
    IF 2 * n < 128 THEN <<2 * n>> ELSE <<128 + ((2 * n) % 128), (2 * n) \div 128>>

C13_UnknownRootId ==
    (scen = "decode" /\ pc = "read" /\ input # <<>> /\ input[1] \notin 1..12)
        => (~rres.ok /\ rres.err = UnknownTagType(input[1]))

\* C13 amended: such an input never yields a tag; the error is
\* UnknownTagType(id) when the root name behind the id reads well, and the
\* error of the name otherwise (Io when the input ends before the name,
\* InvalidString when the name is not Modified UTF-8).
C13_UnknownRootIdAfterName ==
    (scen = "decode" /\ pc = "read" /\ input # <<>> /\ input[1] \notin 1..12) =>
        /\ ~rres.ok
        /\ rres.path = <<>>
        /\ \A id \in BadRootIds \cup {21} :
            /\ (\E nm \in {<<>>, <<97>>}, rest \in {<<>>, <<0>>, <<1, 2, 3>>, <<18, 52, 86, 120>>} :
                    input = RootIdFrame(enc, id, nm, rest))
                => rres.err = UnknownTagType(id)
            /\ input = <<id>> => rres.err = Io
            /\ input = RootIdFrame(enc, id, <<128>>, <<0>>)
                => rres.err = InvalidString(<<128>>)

C13_Witness ==
    /\ scen = "decode" /\ pc = "read"
    /\ input = RootIdFrame(enc, 0, <<>>, <<0>>)
    /\ ~rres.ok /\ rres.err = UnknownTagType(0)

\* the index of the last entry of es under the key k
LastOf(es, k) ==
    CHOOSE i \in 1..Len(es) :
        es[i][1] = k /\ \A j \in (i + 1)..Len(es) : es[j][1] # k

\* C14 (repeated keys): a compound whose wire form repeats a key decodes
\* without error, and the decoded compound holds exactly one entry for each
\* key of the wire form, with the value of the key's last occurrence.
C14_LastValueWins ==
    (scen = "decode" /\ pc = "read" /\ tag = NoTag /\ input # <<>> /\ input[1] = 10) =>
        /\ \A es \in RepeatedEntries :
            input = ByteEntriesFrame(enc, es) =>
                /\ rres.ok /\ rres.val[1] = "Compound"
                /\ Len(rres.val[2]) = Cardinality({es[i][1] : i \in 1..Len(es)})
                /\ \A i \in 1..Len(es) :
                      \E j \in 1..Len(rres.val[2]) :
                          rres.val[2][j] =
                              Entry(es[i][1],
                                    Tag("Byte", SignedBits(es[LastOf(es, es[i][1])][2], 8)))
        /\ input = Frame_RepeatedKey(enc) =>
                /\ rres.ok /\ rres.val[1] = "Compound"
                /\ Len(rres.val[2]) = 1
                /\ rres.val[2][1][1] = <<97>>
                /\ rres.val[2][1][2][1] = "String"

C14_Witness ==
    /\ scen = "decode" /\ pc = "read"
    /\ input = ByteEntriesFrame(enc, <<<<<<97>>, 1>>, <<<<98>>, 1>>, <<<<97>>, 3>>>>)
    /\ rres.ok
    /\ Len(rres.val[2]) = 2
    /\ \E j \in 1..2 : rres.val[2][j] = Entry(<<97>>, Tag("Byte", SignedBits(3, 8)))

\* the number of bytes of a string in Modified UTF-8: one per character,
\* one more for NUL and for U+0080..U+07FF, two more up to U+FFFF, five more
\* (a surrogate pair of three bytes each) above
EncodedLen(x) ==
    Len(x)
    + Cardinality({i \in 1..Len(x) : x[i] = 0 \/ (x[i] >= 128 /\ x[i] < 2048)})
    + 2 * Cardinality({i \in 1..Len(x) : x[i] >= 2048 /\ x[i] < 65536})
    + 5 * Cardinality({i \in 1..Len(x) : x[i] >= 65536})

\* the string a tag of LongTags holds, and its length on the wire
LongString == IF tag[1] = "String" THEN tag[2] ELSE Utf8(tag[2][1][1])
WireLen == IF LongString[1] = "Utf8" THEN EncodedLen(LongString[2]) ELSE Len(LongString[2])

\* the bytes written before the string is reached: the root id and name,
\* and for a compound key the id of the entry
BeforeString ==
    <<tag_id(tag)>> \o (IF enc = NetworkLittleEndian THEN <<0>> ELSE <<0, 0>>)
        \o (IF tag[1] = "Compound" THEN <<1>> ELSE <<>>)

\* C15 (string length bound on write): a String::Utf8 value, a compound key
\* or a String::Bytes value whose encoded length n (raw length for Bytes)
\* exceeds i16::MAX fails with SeqLengthViolation(i16::MAX, n) and no byte of
\* the string, its length prefix included, is written; a string of at most
\* i16::MAX encoded bytes is written whole and never raises the error.
C15_StringLengthBound ==
    /\ (scen = "limit" /\ pc = "written") =>
          IF WireLen > I16_MAX
          THEN /\ ~wres.ok
               /\ wres.err = SeqLengthViolation(I16_MAX, WireLen)
               /\ buf = BeforeString
          ELSE /\ wres.ok
               /\ SubSeq(buf, 1, Len(BeforeString)) = BeforeString
               /\ Len(buf) >= Len(BeforeString) + WireLen
    /\ (scen = "encode" /\ pc = "written") => ~IsError(wres, "SeqLengthViolation")

C15_Witness ==
    /\ scen = "limit" /\ pc = "written"
    /\ tag = Tag("String", Utf8(Rep(0, (I16_MAX + 1) \div 2)))
    /\ ~wres.ok
    /\ wres.err = SeqLengthViolation(I16_MAX, I16_MAX + 1)
    /\ Len(buf) = RootHeaderLen

\* C16 (sequence length bound on write): writing a ByteArray, IntArray,
\* LongArray or List of n > i32::MAX elements fails with
\* SeqLengthViolation(i32::MAX, n) and emits no length prefix, wrapped or
\* otherwise.
C16_SeqLengthBound ==
    (scen = "length" /\ pc \in {"veclen", "listhead"} /\ ExceedsI32Max(prim.x)) =>
        /\ ~wres.ok
        /\ wres.err = SeqLengthViolation(I32_MAX, prim.x)
        /\ buf = <<>>

\* the part of C16 the arrays keep: over the bound the error and no prefix,
\* up to the bound the prefix of that length
C16_ArrayLengthBound ==
    (scen = "length" /\ pc = "veclen") =>
        IF ExceedsI32Max(prim.x)
        THEN ~wres.ok /\ wres.err = SeqLengthViolation(I32_MAX, prim.x) /\ buf = <<>>
        ELSE wres.ok /\ buf = write_i32(enc, SubSeq(prim.x, 1, 32))

\* C17 (negative length on decode): a string whose i16 length is negative
\* (big and little endian), and a ByteArray, IntArray, LongArray or List whose
\* i32 length is negative, fail with SeqLengthViolation carrying i16::MAX
\* resp. i32::MAX, before any element is read; no tag is
\* returned.
C17_NegativeLengthRejected ==
    \A id \in {7, 8, 9, 11, 12}, len \in NegLens \cup {-I32_MAX - 1}, rest \in {<<>>, <<5>>} :
        (/\ scen = "decode" /\ pc = "read" /\ tag = NoTag
         /\ input # <<>> /\ input[1] = id
         /\ id = 8 => (enc # NetworkLittleEndian /\ len >= -I16_MAX - 1)
         /\ input = NegLenFrame(enc, id, len, rest)) =>
            /\ IsError(rres, "SeqLengthViolation")
            /\ rres.err[2][1] = (IF id = 8 THEN I16_MAX ELSE I32_MAX)
            /\ rres.path = <<>>

\* the part of C17 that does not pass through the network varint: in the big
\* and little endian encodings every negative length is refused as stated
C17_NegativeLengthRejectedFixed ==
    \A id \in {7, 8, 9, 11, 12}, len \in NegLens \cup {-I32_MAX - 1}, rest \in {<<>>, <<5>>} :
        (/\ scen = "decode" /\ pc = "read" /\ tag = NoTag
         /\ enc # NetworkLittleEndian
         /\ input # <<>> /\ input[1] = id
         /\ id = 8 => len >= -I16_MAX - 1
         /\ input = NegLenFrame(enc, id, len, rest)) =>
            /\ IsError(rres, "SeqLengthViolation")
            /\ rres.err[2][1] = (IF id = 8 THEN I16_MAX ELSE I32_MAX)
            /\ rres.path = <<>>

\* C18 (network string length bound): in NetworkLittleEndian a string whose
\* length prefix, an unsigned varint, exceeds i16::MAX is refused with
\* SeqLengthViolation; the network string reader returns no string of more
\* than i16::MAX bytes.
C18_NetworkStringLengthRejected ==
    \A n \in LongLens, m \in 0..MaxListLen :
        (/\ scen = "decode" /\ pc = "read" /\ tag = NoTag
         /\ enc = NetworkLittleEndian
         /\ input = LongLenFrame(n, m)) =>
            IsError(rres, "SeqLengthViolation")

\* the most bytes a network varint of that width takes
VarintMax == IF prim.w = 32 THEN 5 ELSE 10

\* the positions of the bytes of the source whose high bit is clear
ClearAt == {i \in 1..Len(input) : input[i] < 128}

\* C19 (varint overflow): NetworkLittleEndian::i32 reads at most 5 bytes and
\* i64 at most 10.  It stops at the first byte whose high bit is clear,
\* leaving the bytes after it unread; when the first 5 (resp. 10) bytes all
\* have the high bit set it fails with Custom("varint overflows integer")
\* and reads no further byte, so that a source of exactly that many bytes
\* gives this error and no end of input; a source that ends sooner gives Io.
C19_VarintOverflow ==
    (scen = "varint" /\ pc = "read" /\ enc = NetworkLittleEndian) =>
        IF \E i \in ClearAt : i <= VarintMax
        THEN LET first == CHOOSE i \in ClearAt : \A j \in ClearAt : i <= j IN
             /\ rres.ok
             /\ rres.rest = SubSeq(input, first + 1, Len(input))
        ELSE IF Len(input) >= VarintMax
        THEN /\ ~rres.ok
             /\ rres.err = Custom("varint overflows integer")
             /\ rres.path = <<>>
        ELSE IsError(rres, "Io") /\ rres.path = <<>>

C19_Witness ==
    /\ scen = "varint" /\ pc = "read" /\ enc = NetworkLittleEndian
    /\ prim.w = 32
    /\ input = Rep(255, 5)
    /\ ~rres.ok
    /\ rres.err = Custom("varint overflows integer")

\* the input is a strict prefix of the frame of the tree `tag`
StrictPrefix ==
    /\ tag # NoTag
    /\ Len(input) < Len(WireFrame(enc, root_name, tag))
    /\ input = SubSeq(WireFrame(enc, root_name, tag), 1, Len(input))

\* C20 as stated (truncated input): NBTTag::read of a strict prefix of a
\* well-formed root frame, in every encoding, returns no tag but an Io error
\* whose path is the path of the node being decoded when the input ran out.
C20_TruncatedIsIoAtNode ==
    (scen = "decode" /\ pc = "read" /\ StrictPrefix) =>
        /\ IsError(rres, "Io")
        /\ rres.path = FailingNode(FALSE)

\* C20 amended: no tag but an Io error, whose path is that of the node being
\* decoded, followed by Element(j) when the input ran out at byte j of a
\* string (a String payload, a compound key or the root name).
C20_TruncatedIsIo ==
    (scen = "decode" /\ pc = "read" /\ StrictPrefix) =>
        /\ IsError(rres, "Io")
        /\ rres.path = FailingNode(TRUE)

C20_Witness ==
    /\ scen = "decode" /\ pc = "read" /\ StrictPrefix
    /\ tag[1] = "List"
    /\ Len(input) > RootHeaderLen + 1
    /\ IsError(rres, "Io")
    /\ rres.path # <<>>

\* C21 (encoding independence): for every tag tree that can be written, the
\* tag read back from its BigEndian frame, the tag read back from its
\* LittleEndian frame and the tag read back from its NetworkLittleEndian
\* frame are equal.
C21_EncodingIndependence ==
    (scen = "encode" /\ pc = "read") =>
        \A e \in Encodings :
            LET w == NBTTag_write(e, tag)
                r == NBTTag_read(e, w.buf)
            IN /\ w.ok
               /\ r.ok = rres.ok
               /\ rres.ok => TagEq(r.val, rres.val)

\* the part of C21 that does not pass through the network varint: BigEndian
\* and LittleEndian read back the same tag
C21_FixedWidthIndependence ==
    (scen = "encode" /\ pc = "read" /\ enc # NetworkLittleEndian) =>
        \A e \in {BigEndian, LittleEndian} :
            LET w == NBTTag_write(e, tag)
                r == NBTTag_read(e, w.buf)
            IN /\ w.ok
               /\ r.ok = rres.ok
               /\ rres.ok => TagEq(r.val, rres.val)

\* the children of the compound `tag` stored under the key prim.x whose
\* variant has the tag id prim.w
Matching ==
    {tag[2][i][2] : i \in {j \in 1..Len(tag[2]) :
                            tag[2][j][1] = prim.x /\ tag_id(tag[2][j][2]) = prim.w}}

\* C22 (typed accessors): for every compound c, key k and variant V,
\* c.get_V(k) returns the child stored under k exactly when k is present and
\* its value has variant V, and None when k is absent or holds another
\* variant; the call leaves the compound as it was.
C22_TypedAccessors ==
    /\ [](scen = "access" /\ pc = "got" =>
            IF Matching = {} THEN rres.val = None
            ELSE \E x \in Matching : rres.val = Some(x[2]))
    /\ [][scen = "access" => tag' = tag]_vars

C22_Witness ==
    /\ scen = "access" /\ pc = "got"
    /\ tag = Tag("Compound", <<Entry(<<97>>, Tag("List", <<>>)),
                               Entry(<<98>>, Tag("Byte", SignedBits(-1, 8)))>>)
    /\ prim = [w |-> 1, x |-> <<98>>]
    /\ rres.val = Some(SignedBits(-1, 8))

\* the number a sequence of decimal digit characters stands for
RECURSIVE DigitsValue(_)
DigitsValue(ds) ==
    IF ds = <<>> THEN 0
    ELSE 10 * DigitsValue(SubSeq(ds, 1, Len(ds) - 1)) + (ds[Len(ds)] - 48)

\* ds is the decimal numeral of n: digits only, no leading zero but for 0
IsNumeral(ds, n) ==
    /\ ds # <<>>
    /\ \A i \in 1..Len(ds) : ds[i] \in 48..57
    /\ Len(ds) > 1 => ds[1] # 48
    /\ DigitsValue(ds) = n

\* text is the rendering of one part: a MapKey its name, Element(i) "[i]"
Renders(text, part) ==
    CASE part[1] \in {"MapKey", "Field"} -> text = part[2]
      [] part[1] = "Element" ->
            /\ Len(text) >= 3
            /\ text[1] = 91 /\ text[Len(text)] = 93
            /\ IsNumeral(SubSeq(text, 2, Len(text) - 1), part[2])
      [] part[1] = "TupleField" -> IsNumeral(text, part[2])

\* text is the parts from i on, each after the first preceded by "." unless
\* it is an Element
RECURSIVE RendersFrom(_, _, _)
RendersFrom(text, path, i) ==
    IF i > Len(path) THEN text = <<>>
    ELSE LET dot == i > 1 /\ path[i][1] # "Element" IN
         /\ dot => (text # <<>> /\ text[1] = 46)
         /\ LET rest == IF dot THEN Tail(text) ELSE text IN
            \E k \in 0..Len(rest) :
                /\ Renders(SubSeq(rest, 1, k), path[i])
                /\ RendersFrom(SubSeq(rest, k + 1, Len(rest)), path, i + 1)

\* C23 (path display): the empty path renders as "(root)"; otherwise the
\* components are rendered in order, a MapKey as its name and Element(i) as
\* "[i]" with i in decimal, with a "." before every component after the
\* first except before an Element; MapKey(a), Element(0), MapKey(bc) renders
\* as "a[0].bc".
C23_PathDisplay ==
    (scen = "display" /\ pc = "shown") =>
        /\ prim.x = <<>> => buf = <<40, 114, 111, 111, 116, 41>>
        /\ prim.x # <<>> => RendersFrom(buf, prim.x, 1)
        /\ prim.x = <<MapKey(<<97>>), Element(0), MapKey(<<98, 99>>)>>
                => buf = <<97, 91, 48, 93, 46, 98, 99>>
        /\ prim.x = <<Element(305), Element(10)>>
                => buf = <<91, 51, 48, 53, 93, 91, 49, 48, 93>>

C23_Witness ==
    /\ scen = "display" /\ pc = "shown"
    /\ prim.x = <<MapKey(<<97>>), Element(0), MapKey(<<98, 99>>)>>
    /\ buf = <<97, 91, 48, 93, 46, 98, 99>>

\* the variant whose tag id is n
VariantName(n) ==
    CHOOSE v \in {"Byte", "Short", "Int", "Long", "Float", "Double", "String",
                  "Compound", "List", "ByteArray", "IntArray", "LongArray"} :
        tag_id(Tag(v, <<>>)) = n

\* C24 (typed root reader): X::read, X the variant type with wire id n, on an
\* input whose first byte is m # n fails with UnexpectedTag(n, m) whatever
\* follows that byte, the name and the payload being left unread; when the
\* first byte is n it returns what NBTTag::read returns: the same error, or
\* the value that NBTTag::read returns wrapped in variant X, with the same
\* bytes left.
C24_TypedRootReader ==
    (scen = "typed" /\ pc = "typed" /\ input # <<>>) =>
        IF input[1] # prim.w
        THEN rres = NBTError_new(UnexpectedTag(prim.w, input[1]))
        ELSE LET whole == NBTTag_read(enc, input) IN
             IF whole.ok
             THEN /\ rres.ok
                  /\ Tag(VariantName(prim.w), rres.val) = whole.val
                  /\ rres.rest = whole.rest
             ELSE rres = whole

C24_Witness ==
    /\ scen = "typed" /\ pc = "typed"
    /\ prim.w = 3
    /\ input = <<1>>
    /\ rres = NBTError_new(UnexpectedTag(3, 1))

\* bit p of u = (x << 1) XOR (x >> (w - 1)) modulo 2^w, x a w-bit vector:
\* bit p - 1 of x (0 for p = 1) XOR the sign bit of x
ZigZagBit(x, p) ==
    LET shifted == IF p = 1 THEN 0 ELSE x[p - 1] IN
    IF shifted = x[Len(x)] THEN 0 ELSE 1

\* bit k (1..8) of a byte
BitOfByte(b, k) == (b \div (2 ^ (k - 1))) % 2

\* C25 (zig-zag encode form): NetworkLittleEndian::write_i32(x) emits the
\* base-128 varint of u = (x << 1) XOR (x >> 31) modulo 2^32: 7 value bits per
\* byte, low bits first, the high bit set on every byte but the last and clear
\* on the last, 1 to 5 bytes, no trailing group of zeros but in the one byte
\* of u = 0; write_i64 the same with width 64 and 1 to 10 bytes.
C25_ZigZagEncodeForm ==
    (scen = "integer" /\ pc = "written" /\ enc = NetworkLittleEndian) =>
        /\ Len(buf) >= 1
        /\ Len(buf) <= (IF prim.w = 32 THEN 5 ELSE 10)
        /\ \A j \in 1..Len(buf) : (buf[j] >= 128) = (j < Len(buf))
        /\ \A j \in 1..10, k \in 1..7 :
                LET p == 7 * (j - 1) + k
                    sent == IF j <= Len(buf) THEN BitOfByte(buf[j], k) ELSE 0
                    want == IF p <= prim.w THEN ZigZagBit(prim.x, p) ELSE 0
                IN sent = want
        /\ Len(buf) > 1 => buf[Len(buf)] # 0

C25_Witness ==
    /\ scen = "integer" /\ pc = "written" /\ enc = NetworkLittleEndian
    /\ prim = [w |-> 32, x |-> SignedBits(-I32_MAX - 1, 32)]
    /\ buf = <<255, 255, 255, 255, 15>>

\* the bytes of the source that a varint read takes: up to the first byte
\* with the high bit clear
Taken == CHOOSE i \in ClearAt : \A j \in ClearAt : i <= j

\* bit p of the unsigned value the 7-bit groups of those bytes accumulate to
GroupBit(p) ==
    LET j == ((p - 1) \div 7) + 1
        k == ((p - 1) % 7) + 1
    IN IF j <= Taken THEN BitOfByte(input[j], k) ELSE 0

\* bit i of (u >> 1) XOR -(u & 1) at width w: bit i + 1 of u XOR bit 1 of u
ZigZagValueBit(i, w) ==
    LET up == IF i = w THEN 0 ELSE GroupBit(i + 1) IN
    IF up = GroupBit(1) THEN 0 ELSE 1

\* C26 (zig-zag decode value): for every terminated varint of at most 5 bytes
\* whose groups accumulate to the unsigned 32-bit value u,
\* NetworkLittleEndian::i32 returns (u >> 1) XOR -(u & 1) as a signed 32-bit
\* integer (u = 1 gives -1, u = 2^32 - 1 gives i32::MIN); likewise i64 with
\* at most 10 bytes.
C26_ZigZagDecodeValue ==
    (scen = "varint" /\ pc = "read" /\ enc = NetworkLittleEndian /\ rres.ok) =>
        rres.val = [i \in 1..prim.w |-> ZigZagValueBit(i, prim.w)]

\* what the code returns instead: (u >> 1) for an even u, the two's
\* complement negation of (u >> 1) for an odd u, so that the claim's value is
\* returned exactly for the even u
C26_DecodeEvenOnly ==
    (scen = "varint" /\ pc = "read" /\ enc = NetworkLittleEndian /\ rres.ok) =>
        /\ GroupBit(1) = 0 => rres.val = [i \in 1..prim.w |-> ZigZagValueBit(i, prim.w)]
        /\ GroupBit(1) = 1 =>
                rres.val = Neg([i \in 1..prim.w |-> IF i = prim.w THEN 0 ELSE GroupBit(i + 1)])

\* the size in bytes of an element of the sequence of the variant n; for the
\* NBTTag of a list the smallest size possible, which gives the claim its
\* loosest bound
ElementSize(n) ==
    CASE n \in {7, 8, 9} -> 1
      [] n = 11 -> 4
      [] n = 12 -> 8

\* C27 (hostile-length defence): on every decode path that reads a length
\* prefix len (string, network string, ByteArray, IntArray, LongArray, List)
\* the capacity reserved before any element is read is at most
\* min(len, 1024 / element_size), never len itself when len is over that.
C27_CapacityClamped ==
    (scen = "reserve" /\ pc = "reserved" /\ rres.val # None) =>
        rres.val[2] <= Min(prim.x, CapacityClamp \div ElementSize(prim.w))

\* the part of C27 the Reader trait's defaults keep: the big and little endian
\* string and the three arrays in every encoding
C27_TraitCapacityClamped ==
    (scen = "reserve" /\ pc = "reserved" /\ rres.val # None
        /\ prim.w # 9 /\ (prim.w = 8 => enc # NetworkLittleEndian)) =>
        rres.val[2] <= Min(prim.x, CapacityClamp \div ElementSize(prim.w))

\* the element-type id of the root list in `input`: the byte after the root
\* id and the root name
WireElementId == string(enc, Tail(input)).rest[1]

\* C28 (decoded-list homogeneity): in every tree a successful NBTTag::read
\* returns, every list, at any depth, holds elements of one variant, for a
\* root list the variant named by the element-type id on the wire; writing
\* the decoded tree never fails with UnexpectedTag.
C28_DecodedListsHomogeneous ==
    /\ (scen = "decode" /\ pc \in {"read", "written"} /\ rres.ok) =>
            /\ Homogeneous(rres.val)
            /\ rres.val[1] = "List" =>
                    \A i \in 1..Len(rres.val[2]) : tag_id(rres.val[2][i]) = WireElementId
    /\ (scen = "decode" /\ pc = "written") => ~IsError(wres, "UnexpectedTag")

C28_Witness ==
    /\ scen = "decode" /\ pc = "written"
    /\ rres.ok /\ rres.val[1] = "List" /\ Len(rres.val[2]) = 2
    /\ WireElementId = 3
    /\ rres.val[2][2][1] = "Int"
    /\ wres.ok

\* C29 (exact consumption): a successful NBTTag::read consumes exactly the
\* bytes of one root frame, a compound its terminating END byte and nothing
\* after it; for any writable tag t and any trailing bytes s, reading
\* write(t) followed by s returns the tag that reading write(t) alone
\* returns and leaves exactly s unread.
C29_ExactConsumption ==
    (scen = "trailing" /\ pc = "read") =>
        LET alone == NBTTag_read(enc, buf) IN
        /\ rres.ok /\ alone.ok
        /\ rres.val = alone.val
        /\ rres.rest = input
        /\ alone.rest = <<>>

\* the part of C29 that does not pass through a String::Bytes payload in
\* network form
C29_ExactConsumptionButRawStrings ==
    (scen = "trailing" /\ pc = "read"
        /\ ~(enc = NetworkLittleEndian /\ tag[1] = "String" /\ tag[2][1] = "Bytes")) =>
        LET alone == NBTTag_read(enc, buf) IN
        /\ rres.ok /\ alone.ok
        /\ rres.val = alone.val
        /\ rres.rest = input
        /\ alone.rest = <<>>

\* the complete payloads of elements lo..hi of a list, in order
ElementPayloads(e, l, lo, hi) ==
    Concat([k \in 1..(hi - lo + 1) |-> write_payload(e, l[lo + k - 1]).buf])

\* the complete entries lo..hi of a compound, in order
EntryBytes(e, m, lo, hi) ==
    Concat([k \in 1..(hi - lo + 1) |->
                write_u8(e, tag_id(m[lo + k - 1][2]))
                    \o write_string(e, m[lo + k - 1][1]).buf
                    \o write_payload(e, m[lo + k - 1][2]).buf])

\* the first child of a list that cannot be written whole: its variant is
\* not that of element 0, or it holds a list of mixed variants
FirstUnwritable(l) ==
    CHOOSE i \in 1..Len(l) :
        /\ tag_type(l[i]) # tag_type(l[1]) \/ ~Homogeneous(l[i])
        /\ \A j \in 1..(i - 1) : tag_type(l[j]) = tag_type(l[1]) /\ Homogeneous(l[j])

\* the first entry of a compound whose value cannot be written whole
FirstUnwritableEntry(m) ==
    CHOOSE i \in 1..Len(m) :
        /\ ~Homogeneous(m[i][2])
        /\ \A j \in 1..(i - 1) : Homogeneous(m[j][2])

\* the payload bytes of x that precede the offending element of the first
\* list of mixed variants in x: enclosing structure, the list's element
\* type id and full length, and the elements before the offending one
RECURSIVE BytesBefore(_, _)
BytesBefore(e, x) ==
    IF x[1] = "List"
    THEN LET l == x[2]
             i == FirstUnwritable(l)
         IN <<tag_id(l[1])>> \o write_i32(e, NatBits(Len(l), 32))
                \o ElementPayloads(e, l, 1, i - 1)
                \o (IF tag_type(l[i]) # tag_type(l[1]) THEN <<>> ELSE BytesBefore(e, l[i]))
    ELSE LET m == x[2]
             i == FirstUnwritableEntry(m)
         IN EntryBytes(e, m, 1, i - 1)
                \o <<tag_id(m[i][2])>> \o write_string(e, m[i][1]).buf
                \o BytesBefore(e, m[i][2])

\* C30 (partial output on a failed write): when NBTTag::write fails with
\* UnexpectedTag at index i of a list, the sink holds exactly the bytes that
\* precede element i in the encoding (root header, enclosing structure, the
\* list's element-type id and full length, the payloads of elements 0..i-1)
\* and no byte of element i or of anything after it; nothing is rolled back.
C30_PartialOutputOnFailedWrite ==
    (scen = "encode" /\ pc = "written" /\ IsError(wres, "UnexpectedTag")) =>
        /\ ~Homogeneous(tag)
        /\ buf = <<tag_id(tag)>> \o write_string(enc, <<>>).buf \o BytesBefore(enc, tag)
        /\ tag[1] = "List" /\ Mixed(tag[2]) /\ Homogeneous(<<"List", SubSeq(tag[2], 1, FirstMixed(tag[2]) - 1)>>) =>
                /\ wres.path = <<Element(FirstMixed(tag[2]) - 1)>>
                /\ Len(buf) = RootHeaderLen + Len(write_list_head(enc, tag_id(tag[2][1]), NatBits(Len(tag[2]), 64)))
                                + Len(ElementPayloads(enc, tag[2], 1, FirstMixed(tag[2]) - 1))

\* a mixed list inside a compound fails at its second element after the
\* entry header, the list head and the first element have reached the sink
C30_Witness ==
    /\ scen = "encode" /\ pc = "written" /\ IsError(wres, "UnexpectedTag")
    /\ tag[1] = "Compound" /\ Len(tag[2]) = 1
    /\ tag[2][1][2][1] = "List"
    /\ wres.path = <<Element(1)>>
    /\ tag[2][1][2][2][1][1] = "Byte" /\ tag[2][1][2][2][2][1] = "Int"
    /\ enc = BigEndian
    /\ buf = <<10, 0, 0, 9, 0, 1, 97, 1, 0, 0, 0, 2, 1>>

====
